---- MODULE Spec2Model ----
(***************************************************************************)
(* Model of the NextStep ingestion and structuring pipeline:               *)
(*   - scrapers/db.py            Database.batch_insert (SQLite stub store)  *)
(*   - backend/server.py         scrape_jobs / process_scraped_jobs         *)
(*   - scrapers/base_scraper.py  BaseScraper.fetch_page                     *)
(*   - processors/pipeline2.py   JobProcessor, AcademicDetailsProcessor     *)
(* Each subsystem has its own next-state relation and specification; the    *)
(* variables of the other subsystems stay at their initial values.          *)
(***************************************************************************)
EXTENDS Integers, Sequences, FiniteSets, TLC

VARIABLES
    \* ---- SQLite stub store (scrapers/db.py) ----
    jobs_data,      \* committed rows of the stub table: set of [id, full_link, title, content]
    sqlite_seq,     \* AUTOINCREMENT high-water mark of the stub table
    bi_last,        \* the batch_insert call in progress, or the last one when it was the last write
    bi_txn,         \* the transaction a raised commit left open on the Database connection
    \* ---- API scrape path (backend/server.py scrape_jobs) ----
    raw_jobs,       \* the db.raw_jobs collection, in insertion order
    uuid_seq,       \* number of uuid4 values drawn so far (each draw is fresh)
    scrape_resp,    \* the last response of POST /jobs/scrape
    sj_req,         \* per request: position of its scrape_jobs handler and its local variables
    \* ---- BaseScraper.fetch_page ----
    fp_pc,          \* "idle" | "loop" (inside the for loop) | "done" (returned)
    fp_script,      \* what the site answers to the 1st, 2nd, ... request of this call
    fp_attempt,     \* the loop variable `attempt`
    fp_log,         \* the answers received so far, one per request issued
    fp_delays,      \* seconds slept after each request that did not return
    fp_result,      \* the return value: "body" (response text) or "none" (None)
    \* ---- JobProcessor pipeline (process_scraped_jobs / process_job_batch) ----
    pj_phase,       \* "batch" (inside process_job_batch) | "store" (storing results) | "done"
    pj_i,           \* offset of the current batch in job_records
    pj_step,        \* per job: its position in process_job / storage
    pj_extracted,   \* per job: the extracted_data dict held by its process_job task
    pj_result,      \* per job: the record its process_job task returned
    pj_out,         \* the list processed_jobs built by process_job_batch
    pj_k,           \* number of results process_scraped_jobs has tried to store
    db_processed,   \* the db.processed_jobs collection, keyed by id
    pj_trace,       \* per job: the positions it has passed through, in order
    pj_env,         \* per job: what its collaborators did (fetch, raise, store failure)
    \* ---- AcademicDetailsProcessor (processors/pipeline2.py) ----
    st_same_db,     \* input_db_path and output_db_path name the same database file
    st_db,          \* the committed output database: data tables and processing_status
    bx_pc,          \* "idle" | "running" (inside batch_extract)
    bx_queue,       \* rows of unprocessed_jobs that batch_extract has not reached yet
    es_job,         \* the job extract_and_store is working on, 0 when it is not running
    es_retry,       \* the local retry_count of extract_and_store
    es_delays,      \* the sleeps of the current (or last) extract_and_store call, in seconds
    es_result,      \* what the last extract_and_store call returned
    st_last,        \* the last _store_job_data call: job, failure, the job's data rows before
    st_exhausted,   \* jobs whose recorded retry count has exceeded max_retries at some time
    \* ---- education requirements extractor (educ_process.py, educ_try.py) ----
    ed_rows,        \* rows of education_requirements written by educ_try, in id order
    ed_pc,          \* "idle" | "batch" (inside educ_try.batch_extract)
    ed_queue,       \* job ids educ_try.batch_extract has not reached yet
    ed_written,     \* per job: the requirements of its latest committed write
    ed_last,        \* the last extraction call: variant, job, chain outcome, result
    \* ---- concurrent _store_job_data calls on one job ----
    rc_db,          \* the committed output database the writers share
    rc_view,        \* the uncommitted view of the connection holding the write lock
    rc_lock,        \* the writer holding the SQLite write lock, 0 when it is free
    rc_pc,          \* per writer: statements executed, Committed, InErrorHandler or Failed
    rc_order,       \* the writers that committed their store, in commit order
    \* ---- listing-page loops of the scrapers ----
    pg_pc,          \* "idle", "get_pages", "listing", "page_details", "details",
                    \* "store", "done"
    pg_variant,     \* the scraper variant that runs
    pg_site,        \* the site it runs against
    pg_last,        \* the last listing page the variant plans to request
    pg_next,        \* the next listing page to request
    pg_taken,       \* pooled variants: listing pages a pool thread has taken and
                    \* not yet requested
    pg_inflight,    \* listing pages requested and not yet answered
    pg_requested,   \* the listing pages requested, in request order
    pg_htmls,       \* the answers the pool collected, by page
    pg_jobs,        \* the listing stubs collected (myjobmag: of the current page)
    pg_pending,     \* myjobmag: stubs whose process_job future is not yet handled
    pg_rows,        \* rows built and not yet inserted (completed_jobs, rows)
    pg_k,           \* brightermonday: stubs whose detail request has been handled
    pg_batch_size,  \* myjobmag: the batch_size argument of scrape
    pg_stored,      \* the stubs stored in jobs_data, in insertion order
    \* ---- _calculate_quality_score calls ----
    qs_called,      \* whether the function has been called
    qs_extracted,   \* the extracted_data of the last call
    qs_ai,          \* the ai_data of the last call
    qs_score,       \* the score it returned, in tenths
    \* ---- batch_extract_async ----
    wp_pc,          \* "idle", "gather", "done"
    wp_max_concurrent, \* the max_concurrent argument
    wp_permits,     \* permits left in the semaphore
    wp_task,        \* per task: "none", "waiting", "running", "returned", "raised"
    \* ---- rate_limited_get on a get_session session ----
    sg_pc,          \* "idle", "get", "done"
    sg_script,      \* the answers the site gives to the successive requests
    sg_log,         \* the answers received so far
    sg_delays,      \* tenths of a second slept before each retry
    sg_result,      \* "none", "body" or "raised"
    \* ---- the rate limiter of rate_limited_get ----
    rl_clock,       \* the clock, in ticks
    rl_limiter,     \* the @limits decorator object: num_calls, last_reset
    rl_thread,      \* per worker thread: idle, sleeping until a tick, in the body
                    \* (session.get, with the requests it has sent), or returning
    rl_calls,       \* calls @limits let through, per tick
    rl_issued,      \* HTTP requests sent, per tick
    \* ---- _parse_salary calls ----
    ps_text,        \* the salary_text of the last call
    ps_result       \* the dict it returned

ingestVars == <<jobs_data, sqlite_seq, bi_last, bi_txn>>
apiVars == <<raw_jobs, uuid_seq, scrape_resp, sj_req>>
fetchVars == <<fp_pc, fp_script, fp_attempt, fp_log, fp_delays, fp_result>>
pipeVars == <<pj_phase, pj_i, pj_step, pj_extracted, pj_result, pj_out, pj_k,
              db_processed, pj_trace, pj_env>>
storeVars == <<st_same_db, st_db, bx_pc, bx_queue, es_job, es_retry, st_last,
               st_exhausted, es_delays, es_result>>
educVars == <<ed_rows, ed_pc, ed_queue, ed_written, ed_last>>
raceVars == <<rc_db, rc_view, rc_lock, rc_pc, rc_order>>
pageVars == <<pg_pc, pg_variant, pg_site, pg_last, pg_next, pg_taken, pg_inflight,
              pg_requested,
              pg_htmls, pg_jobs, pg_pending, pg_rows, pg_k, pg_batch_size, pg_stored>>
scoreVars == <<qs_called, qs_extracted, qs_ai, qs_score>>
poolVars == <<wp_pc, wp_max_concurrent, wp_permits, wp_task>>
sessVars == <<sg_pc, sg_script, sg_log, sg_delays, sg_result>>
limiterVars == <<rl_clock, rl_limiter, rl_thread, rl_calls, rl_issued>>
salaryVars == <<ps_text, ps_result>>

vars == <<jobs_data, sqlite_seq, bi_last, bi_txn, raw_jobs, uuid_seq, scrape_resp, sj_req,
          fp_pc, fp_script, fp_attempt, fp_log, fp_delays, fp_result,
          pj_phase, pj_i, pj_step, pj_extracted, pj_result, pj_out, pj_k,
          db_processed, pj_trace, pj_env,
          st_same_db, st_db, bx_pc, bx_queue, es_job, es_retry, st_last,
          st_exhausted, es_delays, es_result,
          ed_rows, ed_pc, ed_queue, ed_written, ed_last,
          rc_db, rc_view, rc_lock, rc_pc, rc_order,
          pg_pc, pg_variant, pg_site, pg_last, pg_next, pg_taken, pg_inflight,
          pg_requested,
          pg_htmls, pg_jobs, pg_pending, pg_rows, pg_k,
          pg_batch_size, pg_stored,
          qs_called, qs_extracted, qs_ai, qs_score,
          wp_pc, wp_max_concurrent, wp_permits, wp_task,
          sg_pc, sg_script, sg_log, sg_delays, sg_result,
          rl_clock, rl_limiter, rl_thread, rl_calls, rl_issued,
          ps_text, ps_result>>

Range(s) == {s[i] : i \in DOMAIN s}

Min(a, b) == IF a < b THEN a ELSE b

(***************************************************************************)
(* SQLite stub store: scrapers/db.py                                        *)
(***************************************************************************)

\* Number of distinct canonical URLs a site can list.
NumLinks == 2
\* Longest row list handed to one batch_insert call.
MaxBatch == 2

Links == 1..NumLinks

\* Cap on the AUTOINCREMENT mark of the stub table in the model.
MaxSeq == 3

\* (title, content) pairs a scraper can produce for a listing.
StubPayloads ==
    { [title |-> "Engineer", content |-> ""],
      [title |-> "Analyst",  content |-> "body"] }

\* One element of `rows`: a (title, full_link, content) tuple.
RowInputs ==
    { [title |-> p.title, full_link |-> l, content |-> p.content] :
        p \in StubPayloads, l \in Links }

\* INSERT OR REPLACE: the stored row is deleted and a new one takes the next id.
InsertOrIgnore_Replace(conn, row) ==
    [table |-> { r \in conn.table : r.full_link # row.full_link } \cup
               { [id |-> conn.seq + 1, full_link |-> row.full_link,
                  title |-> row.title, content |-> row.content] },
     seq |-> conn.seq + 1, rowcount |-> 1]

\* INSERT OR IGNORE INTO <table> (title, full_link, content) VALUES (?, ?, ?)
\* against  id INTEGER PRIMARY KEY AUTOINCREMENT, full_link TEXT UNIQUE.
\* conn is the connection's view [table, seq]; the result carries cursor.rowcount.
\* SQLite draws the AUTOINCREMENT id before it meets the UNIQUE conflict, so an
\* ignored row uses up an id as well.
InsertOrIgnore(conn, row) ==
    IF \E r \in conn.table : r.full_link = row.full_link
    THEN [table |-> conn.table, seq |-> conn.seq + 1, rowcount |-> 0]
    ELSE [table |-> conn.table \cup
                    { [id |-> conn.seq + 1, full_link |-> row.full_link,
                       title |-> row.title, content |-> row.content] },
          seq |-> conn.seq + 1, rowcount |-> 1]

\* `if cursor.rowcount: inserted += 1`
CountInserted(inserted, rowcount) ==
    IF rowcount # 0 THEN inserted + 1 ELSE inserted

\* The Database classes: "scrapers" is scrapers/db.py and the Database of
\* Nextstepjobs/scrapers/myjobmag.py (the same code), "backup" is
\* backup/original/scrapers/db.py, which wraps the loop and the commit in
\* try / except Exception: rollback.
DbVariants == {"scrapers", "backup"}

\* The connection has no transaction open.
NoTxn == [open |-> FALSE, table |-> {}, seq |-> 0]

\* What the Database connection reads: its own uncommitted rows while its
\* transaction is open, else the committed table.
ConnView ==
    IF bi_txn.open
    THEN [table |-> bi_txn.table, seq |-> bi_txn.seq]
    ELSE [table |-> jobs_data, seq |-> sqlite_seq]

\* No batch_insert call is in progress and the last write to the table was not
\* one. pc is "loop" inside the call, "returned" after its return and "raised"
\* when the commit error left it; n counts the rows taken from the list,
\* attempted holds the links whose INSERT ran, retitled those of them stored
\* under another title and content, before the committed table at the commit.
NoBatchInsert ==
    [pc |-> "idle", variant |-> "scrapers", n |-> 0, attempted |-> {}, retitled |-> {},
     before |-> {}, inserted |-> 0, committed |-> FALSE, carried |-> FALSE]

IngestInit ==
    /\ jobs_data = {}
    /\ sqlite_seq = 0
    /\ bi_last = NoBatchInsert
    /\ bi_txn = NoTxn

\* SiteSpider.run / JobScraper.scrape call batch_insert(rows): cursor, and
\* inserted = 0. The connection with a transaction left open is one of the
\* "scrapers" class (JobScraper.scrape logs the error of a batch and goes on
\* with the next one).
BatchInsertCall ==
    \E variant \in DbVariants :
        /\ bi_last.pc # "loop"
        /\ bi_txn.open => variant = "scrapers"
        /\ bi_last' = [NoBatchInsert EXCEPT !.pc = "loop", !.variant = variant,
                                            !.carried = bi_txn.open]
        /\ UNCHANGED <<jobs_data, sqlite_seq, bi_txn>>
        /\ UNCHANGED <<apiVars, fetchVars, pipeVars, storeVars, educVars, raceVars, pageVars, scoreVars, poolVars, sessVars, limiterVars, salaryVars>>

\* One turn of the loop of batch_insert: the INSERT OR IGNORE of the next row,
\* counted when cursor.rowcount is non-zero; raises is the sqlite3.Error of this
\* execute, which is logged and the row skipped. The first INSERT that runs
\* opens the transaction of the connection.
BatchInsertRow ==
    \E row \in RowInputs, raises \in BOOLEAN :
        /\ bi_last.pc = "loop"
        /\ bi_last.n < MaxBatch
        /\ IF raises
           THEN /\ bi_last' = [bi_last EXCEPT !.n = @ + 1]
                /\ UNCHANGED bi_txn
           ELSE LET r == InsertOrIgnore(ConnView, row)
                IN  /\ r.seq <= MaxSeq
                    /\ bi_txn' = [open |-> TRUE, table |-> r.table, seq |-> r.seq]
                    /\ bi_last' =
                         [bi_last EXCEPT
                            !.n = @ + 1,
                            !.inserted = CountInserted(@, r.rowcount),
                            !.attempted = @ \cup {row.full_link},
                            !.retitled = @ \cup
                                { l \in {row.full_link} :
                                    \E x \in jobs_data : /\ x.full_link = l
                                                         /\ x.title # row.title
                                                         /\ x.content # row.content }]
        /\ UNCHANGED <<jobs_data, sqlite_seq>>
        /\ UNCHANGED <<apiVars, fetchVars, pipeVars, storeVars, educVars, raceVars, pageVars, scoreVars, poolVars, sessVars, limiterVars, salaryVars>>

\* The end of batch_insert: self.conn.commit() and return inserted. commit_ok
\* is FALSE when the commit raises (database is locked), which needs a pending
\* write: "scrapers" lets the error out of the call with the transaction still
\* open, "backup" logs it, rolls back and returns `inserted` all the same.
BatchInsertCommit ==
    \E commit_ok \in BOOLEAN :
        /\ bi_last.pc = "loop"
        /\ ~commit_ok => bi_txn.open
        /\ IF commit_ok
           THEN /\ jobs_data' = ConnView.table
                /\ sqlite_seq' = ConnView.seq
                /\ bi_txn' = NoTxn
                /\ bi_last' = [bi_last EXCEPT !.pc = "returned", !.before = jobs_data,
                                              !.committed = TRUE]
           ELSE IF bi_last.variant = "backup"
           THEN /\ bi_txn' = NoTxn
                /\ bi_last' = [bi_last EXCEPT !.pc = "returned", !.before = jobs_data]
                /\ UNCHANGED <<jobs_data, sqlite_seq>>
           ELSE /\ bi_last' = [bi_last EXCEPT !.pc = "raised", !.inserted = 0]
                /\ UNCHANGED <<jobs_data, sqlite_seq, bi_txn>>
        /\ UNCHANGED <<apiVars, fetchVars, pipeVars, storeVars, educVars, raceVars, pageVars, scoreVars, poolVars, sessVars, limiterVars, salaryVars>>

\* Database.close() after a call: the connection is closed and SQLite rolls
\* back the transaction a raised commit left open.
DatabaseClose ==
    /\ bi_last.pc # "loop"
    /\ bi_txn' = NoTxn
    /\ UNCHANGED <<jobs_data, sqlite_seq, bi_last>>
    /\ UNCHANGED <<apiVars, fetchVars, pipeVars, storeVars, educVars, raceVars, pageVars, scoreVars, poolVars, sessVars, limiterVars, salaryVars>>

(***************************************************************************)
(* API scrape path: backend/server.py scrape_jobs with the BaseScraper      *)
(* adapters (linkedin_scraper.py, brighter_monday_scraper.py and the         *)
(* IndeedScraper of backup/original/scrapers/indeed_scraper.py)             *)
(***************************************************************************)

\* Listings one site can show.
NumListings == 1
\* Cards on one listing page.
MaxCards == 1
\* Cap on the number of stubs scraped over all requests (uuid4 draws).
MaxScraped == 3

Listings == 1..NumListings

\* POST /jobs/scrape requests the event loop can have in progress at once.
NumRequests == 2

Requests == 1..NumRequests

\* Keys of the `scrapers` registry of server.py.
KnownSources == {"indeed", "linkedin", "brightermonday"}

\* request.sources: the default of JobSearchRequest among them.
SourceLists ==
    { <<"linkedin">>, <<"indeed", "brightermonday">>, <<"linkedin", "brightermonday">>,
      <<"nosuchsite", "linkedin">> }

\* BaseScraper.name of the adapter registered under a key.
ScraperName(source) ==
    IF source = "indeed" THEN "Indeed"
    ELSE IF source = "linkedin" THEN "LinkedIn" ELSE "BrighterMonday"

\* A job card of a listing page of `source`: whether it has a title element, the
\* text of that element, and its href, which is missing, relative to the site or
\* absolute.
CardsOf(source) ==
    { [title_elem |-> TRUE, title |-> "Engineer",
       href |-> [kind |-> k, site |-> source, n |-> n]] :
        k \in {"rel", "abs"}, n \in Listings }
    \cup { [title_elem |-> FALSE, title |-> "",
            href |-> [kind |-> "rel", site |-> source, n |-> 1]],
           [title_elem |-> TRUE, title |-> "",
            href |-> [kind |-> "rel", site |-> source, n |-> 1]],
           [title_elem |-> TRUE, title |-> "Engineer",
            href |-> [kind |-> "none", site |-> source, n |-> 1]] }

\* The `continue` conditions of the card loops: every adapter skips a card
\* without title element or without href; Indeed and BrighterMonday also skip
\* one whose title text is empty (`if not title or not link`).
CardSkipped(source, card) ==
    \/ ~card.title_elem
    \/ card.href.kind = "none"
    \/ source \in {"indeed", "brightermonday"} /\ card.title = ""

\* What fetching and parsing the listing page of `source` gives: the cards, or an
\* exception escaping scrape_job_listings / the session context.
PageOutcomes(source) ==
    { [raised |-> TRUE, cards |-> <<>>] }
    \cup { [raised |-> FALSE, cards |-> c] :
             c \in UNION { [1..n -> CardsOf(source)] : n \in 0..MaxCards } }

\* get_job_detail_url: an absolute link is kept, a relative one is joined to base_url.
get_job_detail_url(source, href) == [site |-> href.site, n |-> href.n]

\* BaseScraper.create_job_record
create_job_record(source, title, href, uuid) ==
    [id |-> uuid, title |-> title, link |-> get_job_detail_url(source, href),
     source |-> ScraperName(source), processed |-> FALSE]

\* The card loop of scrape_job_listings.
RECURSIVE scrape_job_listings(_, _, _, _)
scrape_job_listings(source, cards, i, uuid) ==
    IF i > Len(cards) THEN <<>>
    ELSE IF CardSkipped(source, cards[i])
    THEN scrape_job_listings(source, cards, i + 1, uuid)
    ELSE <<create_job_record(source, cards[i].title, cards[i].href, uuid + 1)>>
         \o scrape_job_listings(source, cards, i + 1, uuid + 1)

\* db.raw_jobs.insert_one(job): the collection has no index but the one on _id.
insert_one(collection, doc) == Append(collection, doc)

\* A request handler that is not running.
IdleRequest ==
    [pc |-> "idle", sources |-> <<>>, i |-> 0, all_scraped_jobs |-> <<>>, k |-> 0,
     stored_count |-> 0]

ApiInit ==
    /\ raw_jobs = <<>>
    /\ uuid_seq = 0
    /\ scrape_resp = [scraped |-> 0, jobs_stored |-> 0]
    /\ sj_req = [r \in Requests |-> IdleRequest]

\* POST /jobs/scrape arrives: scrape_jobs starts with an empty all_scraped_jobs.
ScrapeJobsCall(r) ==
    /\ sj_req[r].pc = "idle"
    /\ \E sources \in SourceLists :
          sj_req' = [sj_req EXCEPT ![r] =
                        [pc |-> "sources", sources |-> sources, i |-> 1,
                         all_scraped_jobs |-> <<>>, k |-> 0, stored_count |-> 0]]
    /\ UNCHANGED <<raw_jobs, uuid_seq, scrape_resp>>
    /\ UNCHANGED <<ingestVars, fetchVars, pipeVars, storeVars, educVars, raceVars, pageVars, scoreVars, poolVars, sessVars, limiterVars, salaryVars>>

\* One pass of the source loop of scrape_jobs: an unknown source and a scraper
\* that raises are skipped; else the scraper's jobs extend all_scraped_jobs. The
\* store loop follows the last source.
ScrapeSource(r) ==
    LET req == sj_req[r]
        source_name == req.sources[req.i]
        next_pc == IF req.i = Len(req.sources) THEN "store" ELSE "sources"
    IN  /\ req.pc = "sources"
        /\ IF source_name \notin KnownSources
           THEN /\ sj_req' = [sj_req EXCEPT ![r].i = @ + 1, ![r].pc = next_pc]
                /\ uuid_seq' = uuid_seq
           ELSE \E page \in PageOutcomes(source_name) :
                  LET jobs == IF page.raised THEN <<>>
                              ELSE scrape_job_listings(source_name, page.cards, 1, uuid_seq)
                  IN  /\ uuid_seq + Len(jobs) <= MaxScraped
                      /\ uuid_seq' = uuid_seq + Len(jobs)
                      /\ sj_req' = [sj_req EXCEPT
                             ![r].i = @ + 1, ![r].pc = next_pc,
                             ![r].all_scraped_jobs = @ \o jobs]
        /\ UNCHANGED <<raw_jobs, scrape_resp>>
        /\ UNCHANGED <<ingestVars, fetchVars, pipeVars, storeVars, educVars, raceVars, pageVars, scoreVars, poolVars, sessVars, limiterVars, salaryVars>>

\* One pass of the store loop of scrape_jobs: await db.raw_jobs.insert_one(job);
\* an insert that raises is logged and not counted.
StoreScrapedJob(r) ==
    LET req == sj_req[r]
    IN  /\ req.pc = "store"
        /\ req.k < Len(req.all_scraped_jobs)
        /\ \E ok \in BOOLEAN :
              /\ raw_jobs' = IF ok THEN insert_one(raw_jobs, req.all_scraped_jobs[req.k + 1])
                             ELSE raw_jobs
              /\ sj_req' = [sj_req EXCEPT
                     ![r].k = @ + 1,
                     ![r].stored_count = IF ok THEN @ + 1 ELSE @]
        /\ UNCHANGED <<uuid_seq, scrape_resp>>
        /\ UNCHANGED <<ingestVars, fetchVars, pipeVars, storeVars, educVars, raceVars, pageVars, scoreVars, poolVars, sessVars, limiterVars, salaryVars>>

\* scrape_jobs returns its response.
ScrapeJobsReturn(r) ==
    LET req == sj_req[r]
    IN  /\ req.pc = "store"
        /\ req.k = Len(req.all_scraped_jobs)
        /\ scrape_resp' = [scraped |-> Len(req.all_scraped_jobs),
                           jobs_stored |-> req.stored_count]
        /\ sj_req' = [sj_req EXCEPT ![r] = IdleRequest]
        /\ UNCHANGED <<raw_jobs, uuid_seq>>
        /\ UNCHANGED <<ingestVars, fetchVars, pipeVars, storeVars, educVars, raceVars, pageVars, scoreVars, poolVars, sessVars, limiterVars, salaryVars>>

(***************************************************************************)
(* Fetch client: scrapers/base_scraper.py BaseScraper.fetch_page            *)
(***************************************************************************)

\* fetch_page(url, retries=3)
FetchRetries == 3

\* What one session.get can give: a status code, asyncio.TimeoutError ("timeout")
\* or any other exception ("error").
Responses == {"200", "429", "404", "503", "timeout", "error"}

\* The site's answers to the successive requests of one call.
Scripts == [1..(FetchRetries + 1) -> Responses]

RECURSIVE Pow2(_)
Pow2(n) == IF n = 0 THEN 1 ELSE 2 * Pow2(n - 1)

\* The sleep fetch_page makes in iteration `attempt` after answer `resp`:
\* 2 ** attempt after a 429; 2 ** attempt after a timeout or another exception
\* unless this was the last attempt; none after any other status.
fetch_page_sleep(resp, attempt) ==
    IF resp = "429" THEN Pow2(attempt)
    ELSE IF resp \in {"timeout", "error"} /\ attempt < FetchRetries - 1 THEN Pow2(attempt)
    ELSE 0

FetchInit ==
    /\ fp_pc = "idle"
    /\ fp_script = <<>>
    /\ fp_attempt = 0
    /\ fp_log = <<>>
    /\ fp_delays = <<>>
    /\ fp_result = "none"

\* A scraper calls fetch_page(url); the site's answers are fixed by fp_script.
FetchPageCall ==
    /\ fp_pc = "idle"
    /\ \E script \in Scripts : fp_script' = script
    /\ fp_pc' = IF FetchRetries > 0 THEN "loop" ELSE "done"
    /\ fp_attempt' = 0
    /\ fp_log' = <<>>
    /\ fp_delays' = <<>>
    /\ fp_result' = "none"
    /\ UNCHANGED <<ingestVars, apiVars, pipeVars, storeVars, educVars, raceVars, pageVars, scoreVars, poolVars, sessVars, limiterVars, salaryVars>>

\* One iteration of `for attempt in range(retries)`: a 200 returns the text; any
\* other outcome sleeps as fetch_page_sleep says and goes on to the next
\* iteration; after the last iteration the call returns None.
FetchPageAttempt ==
    /\ fp_pc = "loop"
    /\ fp_attempt < FetchRetries
    /\ LET resp == fp_script[Len(fp_log) + 1]
       IN  /\ fp_log' = Append(fp_log, resp)
           /\ IF resp = "200"
              THEN /\ fp_result' = "body"
                   /\ fp_pc' = "done"
                   /\ UNCHANGED <<fp_attempt, fp_delays>>
              ELSE /\ fp_delays' = Append(fp_delays, fetch_page_sleep(resp, fp_attempt))
                   /\ fp_attempt' = fp_attempt + 1
                   /\ fp_pc' = IF fp_attempt + 1 < FetchRetries THEN "loop" ELSE "done"
                   /\ fp_result' = "none"
    /\ UNCHANGED <<fp_script, ingestVars, apiVars, pipeVars, storeVars, educVars, raceVars, pageVars, scoreVars, poolVars, sessVars, limiterVars, salaryVars>>


(***************************************************************************)
(* JobProcessor pipeline: processors/pipeline2.py process_job,              *)
(* process_job_batch and backend/server.py process_scraped_jobs             *)
(***************************************************************************)

\* Number of stubs handed to process_scraped_jobs.
NumPJobs == 3
\* batch_size of process_job_batch.
PBatchSize == 2

PJobs == 1..NumPJobs

\* The raw job record of job j, as create_job_record built it.
job_record(j) == [id |-> j, title |-> "Engineer", link |-> j, source |-> "LinkedIn"]

\* Positions of a job, in pipeline order; "Failed" is outside the order.
StepOrder == <<"Stubbed", "Fetching", "Extracting", "Enhancing", "Scored", "Stored">>

\* A record with no fields set yet (Python None).
NoRecord == [id |-> 0]

\* What _fetch_job_content returns: the page text, or None on a non-200 status or
\* an exception; an empty body is returned as "".
FetchOutcomes == {"html", "", "None"}

\* extracted_data dicts _extract_job_information can build.
ExtractedSamples ==
    { [title |-> "Engineer", company |-> "Unknown", description |-> "",
       skills |-> <<>>, requirements |-> <<>>, salary |-> "None"],
      [title |-> "Engineer", company |-> "Acme", description |-> "Build things",
       skills |-> <<"Python">>, requirements |-> <<"3 years of experience">>,
       salary |-> "KES 80000"] }

NoExtracted ==
    [title |-> "", company |-> "", description |-> "", skills |-> <<>>,
     requirements |-> <<>>, salary |-> "None"]

\* str(e) of an exception raised inside process_job.
ExcMessages == {"", "parse error"}

ExtractOutcomes ==
    { [raised |-> FALSE, data |-> d, msg |-> ""] : d \in ExtractedSamples }
    \cup { [raised |-> TRUE, data |-> NoExtracted, msg |-> m] : m \in ExcMessages }

\* A Python dict of AI fields: the keys present and their values.
AiFull ==
    [keys |-> {"skills_analysis", "role_level", "remote_friendly", "growth_potential",
               "key_responsibilities"},
     val |-> [skills_analysis |-> <<"Python">>, role_level |-> "Senior",
              remote_friendly |-> TRUE, growth_potential |-> "High",
              key_responsibilities |-> <<"Build things">>]]

AiEmpty ==
    [keys |-> {},
     val |-> [skills_analysis |-> <<>>, role_level |-> "", remote_friendly |-> FALSE,
              growth_potential |-> "", key_responsibilities |-> <<>>]]

\* What the AI collaborator does in _enhance_with_ai: there is no client, chat
\* raises or times out, the answer is no JSON, it is a JSON object, or it is JSON
\* of another type (a list, a string, a number).
AiOutcomes ==
    { [kind |-> k, data |-> AiEmpty] : k \in {"no_client", "raised", "bad_json", "json_other"} }
    \cup { [kind |-> "json_object", data |-> d] : d \in {AiFull, AiEmpty} }

\* Outcomes in which the collaborator gave no usable answer.
AiFailureKinds == {"no_client", "raised", "bad_json"}

\* An enhancement that lets the collaborator's failure escape to process_job.
_enhance_with_ai_Propagate(outcome) ==
    IF outcome.kind = "json_object" THEN [is_dict |-> TRUE, data |-> outcome.data]
    ELSE [is_dict |-> FALSE, data |-> AiEmpty]

\* _enhance_with_ai: {} unless json.loads succeeds, and then whatever it returned.
_enhance_with_ai(outcome) ==
    IF outcome.kind = "json_object" THEN [is_dict |-> TRUE, data |-> outcome.data]
    ELSE IF outcome.kind = "json_other" THEN [is_dict |-> FALSE, data |-> AiEmpty]
    ELSE [is_dict |-> TRUE, data |-> AiEmpty]

\* dict.get(key, default)
AiGet(ai, key, default) == IF key \in ai.keys THEN ai.val[key] ELSE default

\* _calculate_quality_score, in tenths: 0.2 title, 0.1 company (not "Unknown"),
\* 0.2 description, 0.1 each for skills, requirements, salary, AI skills and AI
\* responsibilities; min(1.0, score).

\* A score with a heavier title weight and no cap.
_calculate_quality_score_Uncapped(extracted, ai) ==
    (IF extracted.title # "" THEN 3 ELSE 0)
  + (IF extracted.company # "" /\ extracted.company # "Unknown" THEN 1 ELSE 0)
  + (IF extracted.description # "" THEN 2 ELSE 0)
  + (IF extracted.skills # <<>> THEN 1 ELSE 0)
  + (IF extracted.requirements # <<>> THEN 1 ELSE 0)
  + (IF extracted.salary # "None" THEN 1 ELSE 0)
  + (IF AiGet(ai, "skills_analysis", <<>>) # <<>> THEN 1 ELSE 0)
  + (IF AiGet(ai, "key_responsibilities", <<>>) # <<>> THEN 1 ELSE 0)

_calculate_quality_score(extracted, ai) ==
    Min(10,
        (IF extracted.title # "" THEN 2 ELSE 0)
      + (IF extracted.company # "" /\ extracted.company # "Unknown" THEN 1 ELSE 0)
      + (IF extracted.description # "" THEN 2 ELSE 0)
      + (IF extracted.skills # <<>> THEN 1 ELSE 0)
      + (IF extracted.requirements # <<>> THEN 1 ELSE 0)
      + (IF extracted.salary # "None" THEN 1 ELSE 0)
      + (IF AiGet(ai, "skills_analysis", <<>>) # <<>> THEN 1 ELSE 0)
      + (IF AiGet(ai, "key_responsibilities", <<>>) # <<>> THEN 1 ELSE 0))

\* _create_processed_record
_create_processed_record(original, extracted, ai) ==
    [id |-> original.id, source |-> original.source, link |-> original.link,
     title |-> extracted.title, company |-> extracted.company,
     description |-> extracted.description, requirements |-> extracted.requirements,
     skills |-> extracted.skills, salary |-> extracted.salary,
     ai_skills_analysis |-> AiGet(ai, "skills_analysis", <<>>),
     ai_role_level |-> AiGet(ai, "role_level", ""),
     remote_friendly |-> AiGet(ai, "remote_friendly", FALSE),
     growth_potential |-> AiGet(ai, "growth_potential", "Medium"),
     key_responsibilities |-> AiGet(ai, "key_responsibilities", <<>>),
     processed |-> TRUE,
     quality_score |-> _calculate_quality_score(extracted, ai)]

\* A copy-and-paste slip: the failed record built from the processed template.
_create_failed_record_Processed(original, error_message) ==
    [id |-> original.id, source |-> original.source, link |-> original.link,
     title |-> original.title, processed |-> TRUE, processing_failed |-> TRUE,
     error_message |-> error_message, quality_score |-> 0]

\* _create_failed_record
_create_failed_record(original, error_message) ==
    [id |-> original.id, source |-> original.source, link |-> original.link,
     title |-> original.title, processed |-> FALSE, processing_failed |-> TRUE,
     error_message |-> error_message, quality_score |-> 0]

\* process_job after `await self._fetch_job_content(...)`: no content ends the job
\* with a failed record, content goes on to extraction.
process_job_fetched(original, content) ==
    IF content = "None" \/ content = ""
    THEN [step |-> "Failed",
          result |-> _create_failed_record(original, "Failed to fetch content")]
    ELSE [step |-> "Extracting", result |-> NoRecord]

\* process_job after _extract_job_information: an exception is caught by the outer
\* `except Exception as e` and ends the job with a failed record carrying str(e).
process_job_extracted(original, outcome) ==
    IF outcome.raised
    THEN [step |-> "Failed", result |-> _create_failed_record(original, outcome.msg),
          extracted |-> NoExtracted]
    ELSE [step |-> "Enhancing", result |-> NoRecord, extracted |-> outcome.data]

\* str(e) of the AttributeError that ai_data.get raises when ai_data is no dict.
NotADictMessage == "object has no attribute 'get'"

\* process_job after _enhance_with_ai: _create_processed_record, inside the same
\* try block.
process_job_enhanced(original, extracted, ai) ==
    IF ai.is_dict
    THEN [step |-> "Scored", result |-> _create_processed_record(original, extracted, ai.data)]
    ELSE [step |-> "Failed", result |-> _create_failed_record(original, NotADictMessage)]

\* job_records[i:i + batch_size]
Batch(i) == { j \in PJobs : i < j /\ j <= i + PBatchSize }

\* A fail-fast collection: nothing after the first failed record is kept.
RECURSIVE collect_batch_results_FailFast(_, _, _)
collect_batch_results_FailFast(results, i, j) ==
    IF j > Min(i + PBatchSize, NumPJobs) THEN <<>>
    ELSE IF ~results[j].processed THEN <<results[j]>>
    ELSE <<results[j]>> \o collect_batch_results_FailFast(results, i, j + 1)

\* The loop over batch_results of process_job_batch: every result that is no
\* exception is appended, in the order of the batch.
RECURSIVE collect_batch_results(_, _, _)
collect_batch_results(results, i, j) ==
    IF j > Min(i + PBatchSize, NumPJobs) THEN <<>>
    ELSE <<results[j]>> \o collect_batch_results(results, i, j + 1)

\* db.processed_jobs.replace_one({"id": doc["id"]}, doc, upsert=True)
replace_one_upsert(collection, doc) == [collection EXCEPT ![doc.id] = doc]

NoEvents ==
    [fetch |-> "pending", raised |-> "none", msg |-> "", store_failed |-> FALSE,
     ai |-> "pending"]

PipeInit ==
    /\ pj_phase = "batch"
    /\ pj_i = 0
    /\ pj_step = [j \in PJobs |-> "Stubbed"]
    /\ pj_extracted = [j \in PJobs |-> NoExtracted]
    /\ pj_result = [j \in PJobs |-> NoRecord]
    /\ pj_out = <<>>
    /\ pj_k = 0
    /\ db_processed = [j \in PJobs |-> NoRecord]
    /\ pj_trace = [j \in PJobs |-> <<"Stubbed">>]
    /\ pj_env = [j \in PJobs |-> NoEvents]

Move(j, step) ==
    /\ pj_step' = [pj_step EXCEPT ![j] = step]
    /\ pj_trace' = [pj_trace EXCEPT ![j] = Append(@, step)]

\* process_job_batch creates the process_job tasks of the current batch; each runs
\* up to its detail request.
PjBatchStart ==
    /\ pj_phase = "batch"
    /\ Batch(pj_i) # {}
    /\ \A j \in Batch(pj_i) : pj_step[j] = "Stubbed"
    /\ pj_step' = [j \in PJobs |-> IF j \in Batch(pj_i) THEN "Fetching" ELSE pj_step[j]]
    /\ pj_trace' = [j \in PJobs |->
                      IF j \in Batch(pj_i) THEN Append(pj_trace[j], "Fetching")
                      ELSE pj_trace[j]]
    /\ UNCHANGED <<pj_phase, pj_i, pj_extracted, pj_result, pj_out, pj_k,
                   db_processed, pj_env>>
    /\ UNCHANGED <<ingestVars, apiVars, fetchVars, storeVars, educVars, raceVars, pageVars, scoreVars, poolVars, sessVars, limiterVars, salaryVars>>

\* The detail request of job j completes.
PjFetchDone(j) ==
    /\ pj_phase = "batch"
    /\ pj_step[j] = "Fetching"
    /\ \E content \in FetchOutcomes :
         LET r == process_job_fetched(job_record(j), content)
         IN  /\ Move(j, r.step)
             /\ pj_result' = [pj_result EXCEPT ![j] = r.result]
             /\ pj_env' = [pj_env EXCEPT ![j].fetch =
                              IF content = "html" THEN "ok" ELSE "failed"]
    /\ UNCHANGED <<pj_phase, pj_i, pj_extracted, pj_out, pj_k, db_processed>>
    /\ UNCHANGED <<ingestVars, apiVars, fetchVars, storeVars, educVars, raceVars, pageVars, scoreVars, poolVars, sessVars, limiterVars, salaryVars>>

\* _extract_job_information runs on the fetched page of job j.
PjExtract(j) ==
    /\ pj_phase = "batch"
    /\ pj_step[j] = "Extracting"
    /\ \E outcome \in ExtractOutcomes :
         LET r == process_job_extracted(job_record(j), outcome)
         IN  /\ Move(j, r.step)
             /\ pj_result' = [pj_result EXCEPT ![j] = r.result]
             /\ pj_extracted' = [pj_extracted EXCEPT ![j] = r.extracted]
             /\ pj_env' = [pj_env EXCEPT ![j].raised =
                              IF outcome.raised THEN "Extracting" ELSE @,
                                         ![j].msg = IF outcome.raised THEN outcome.msg ELSE @]
    /\ UNCHANGED <<pj_phase, pj_i, pj_out, pj_k, db_processed>>
    /\ UNCHANGED <<ingestVars, apiVars, fetchVars, storeVars, educVars, raceVars, pageVars, scoreVars, poolVars, sessVars, limiterVars, salaryVars>>

\* The AI call of job j completes and the processed record is built.
PjEnhance(j) ==
    /\ pj_phase = "batch"
    /\ pj_step[j] = "Enhancing"
    /\ \E outcome \in AiOutcomes :
         LET ai == _enhance_with_ai(outcome)
             r == process_job_enhanced(job_record(j), pj_extracted[j], ai)
         IN  /\ Move(j, r.step)
             /\ pj_result' = [pj_result EXCEPT ![j] = r.result]
             /\ pj_env' = [pj_env EXCEPT
                    ![j].raised = IF ai.is_dict THEN @ ELSE "Scored",
                    ![j].msg = IF ai.is_dict THEN @ ELSE NotADictMessage,
                    ![j].ai = IF outcome.kind \in AiFailureKinds
                              THEN "failed" ELSE outcome.kind]
    /\ UNCHANGED <<pj_phase, pj_i, pj_extracted, pj_out, pj_k, db_processed>>
    /\ UNCHANGED <<ingestVars, apiVars, fetchVars, storeVars, educVars, raceVars, pageVars, scoreVars, poolVars, sessVars, limiterVars, salaryVars>>

\* range(0, len(job_records), batch_size): the offsets of the batches.
BatchStarts == { i \in 0..(NumPJobs - 1) : i % PBatchSize = 0 }

\* A loop that sleeps after every batch.
delay_follows_Always(i, batch_size, n) == TRUE

\* `if i + batch_size < len(job_records): await asyncio.sleep(2)`
delay_follows(i, batch_size, n) == i + batch_size < n

\* asyncio.gather of the current batch returns: the results are collected; the
\* 2 s sleep follows when another batch is left, else the loop ends.
PjBatchJoin ==
    /\ pj_phase = "batch"
    /\ Batch(pj_i) # {}
    /\ \A j \in Batch(pj_i) : pj_step[j] \in {"Scored", "Failed"}
    /\ pj_out' = pj_out \o collect_batch_results(pj_result, pj_i, pj_i + 1)
    /\ pj_i' = pj_i + PBatchSize
    /\ pj_phase' = IF delay_follows(pj_i, PBatchSize, NumPJobs) THEN "sleep" ELSE "store"
    /\ UNCHANGED <<pj_step, pj_extracted, pj_result, pj_k, db_processed, pj_trace, pj_env>>
    /\ UNCHANGED <<ingestVars, apiVars, fetchVars, storeVars, educVars, raceVars, pageVars, scoreVars, poolVars, sessVars, limiterVars, salaryVars>>

\* The sleep between two batches ends; the loop goes on with the next batch.
PjSleepDone ==
    /\ pj_phase = "sleep"
    /\ pj_phase' = "batch"
    /\ UNCHANGED <<pj_i, pj_step, pj_extracted, pj_result, pj_out, pj_k, db_processed,
                   pj_trace, pj_env>>
    /\ UNCHANGED <<ingestVars, apiVars, fetchVars, storeVars, educVars, raceVars, pageVars, scoreVars, poolVars, sessVars, limiterVars, salaryVars>>

\* process_scraped_jobs stores the next result; a raising replace_one is logged.
PjStore ==
    /\ pj_phase = "store"
    /\ pj_k < Len(pj_out)
    /\ LET doc == pj_out[pj_k + 1]
       IN  \E ok \in BOOLEAN :
             /\ db_processed' = IF ok THEN replace_one_upsert(db_processed, doc)
                                ELSE db_processed
             /\ pj_env' = [pj_env EXCEPT ![doc.id].store_failed = ~ok]
             /\ IF ok /\ doc.processed
                THEN Move(doc.id, "Stored")
                ELSE UNCHANGED <<pj_step, pj_trace>>
    /\ pj_k' = pj_k + 1
    /\ UNCHANGED <<pj_phase, pj_i, pj_extracted, pj_result, pj_out>>
    /\ UNCHANGED <<ingestVars, apiVars, fetchVars, storeVars, educVars, raceVars, pageVars, scoreVars, poolVars, sessVars, limiterVars, salaryVars>>

\* process_scraped_jobs returns.
PjFinish ==
    /\ pj_phase = "store"
    /\ pj_k = Len(pj_out)
    /\ pj_phase' = "done"
    /\ UNCHANGED <<pj_i, pj_step, pj_extracted, pj_result, pj_out, pj_k,
                   db_processed, pj_trace, pj_env>>
    /\ UNCHANGED <<ingestVars, apiVars, fetchVars, storeVars, educVars, raceVars, pageVars, scoreVars, poolVars, sessVars, limiterVars, salaryVars>>

\* ---------------------------------------------------------------------------
\* AcademicDetailsProcessor (processors/pipeline2.py): the SQLite output store
\* ---------------------------------------------------------------------------

NumSJobs == 2

NumPayloads == 2

\* Cap on the retry_count a processing_status row can record in the model.
MaxRetryCount == 4

\* AcademicDetailsProcessor(max_retries=3)
max_retries == 3

SJobs == 1..NumSJobs

\* Extraction results (job_data, education_data) the chains can return.
Payloads == 1..NumPayloads

\* jobs_data.content of the stubs of the input database: the last stub holds
\* only white space.
Content(j) == IF j = NumSJobs THEN " " ELSE "text"

\* A row of SELECT jd.id, jd.full_link, jd.content.
StubRow(j) == [id |-> j, content |-> Content(j)]

\* _preprocess_text: nothing for no text, else white space collapsed and stripped.
_preprocess_text(text) ==
    IF text = "" THEN "" ELSE IF text = " " THEN "" ELSE text

\* The tables _store_job_data writes, in the order of its statements.
DataTables ==
    <<"jobs_meta", "job_classification", "location_work", "skills_taxonomy",
      "certifications", "career_progression", "compensation",
      "education_requirements">>

\* Statements of the transaction: one per data table, the processing_status
\* upsert, and the commit.
NumStatements == Len(DataTables) + 2

\* No processing_status row for the job.
NoStatusRow == [status |-> "absent", error_message |-> "", retry_count |-> 0]

\* INSERT OR REPLACE INTO processing_status (job_id, status, last_attempt)
\* VALUES (?, 'completed', ...): the other columns take their defaults.
CompletedRow == [status |-> "completed", error_message |-> "", retry_count |-> 0]

\* No row for the job in any data table.
NoData == [t \in 1..Len(DataTables) |-> 0]

\* An empty output database (after _setup_db).
EmptyOutputDb ==
    [tables |-> [j \in SJobs |-> NoData], status |-> [j \in SJobs |-> NoStatusRow]]

\* The connection's view after the first n statements of the transaction.
ExecuteStatements(db, job_id, p, n) ==
    [tables |-> [db.tables EXCEPT ![job_id] =
                    [t \in 1..Len(DataTables) |-> IF t <= n THEN p ELSE @[t]]],
     status |-> IF n > Len(DataTables)
                THEN [db.status EXCEPT ![job_id] = CompletedRow]
                ELSE db.status]

\* An error handler that keeps the uncommitted writes on the connection.
Rollback_Keep(committed, pending) == pending

\* conn.rollback(): the connection's view is the committed database again.
Rollback(committed, pending) == committed

\* str(e) of the exception the store raised.
StoreErrorMessage == "database error"

\* INSERT OR REPLACE INTO processing_status ... 'error', str(e),
\* COALESCE((SELECT retry_count ...), 0) + 1
ErrorStatusUpsert(db, job_id, msg) ==
    [db EXCEPT !.status[job_id] =
        [status |-> "error", error_message |-> msg,
         retry_count |-> db.status[job_id].retry_count + 1]]

\* _store_job_data(job_id, job_data, education_data) on the committed database
\* db. fail_at is the statement that raises (0: before BEGIN TRANSACTION,
\* NumStatements: the commit, above that: none); status_write_ok tells whether
\* the error-status upsert and its commit go through. The result is the committed
\* database when the connection is closed.
_store_job_data(db, job_id, p, fail_at, status_write_ok) ==
    IF fail_at > NumStatements
    THEN ExecuteStatements(db, job_id, p, NumStatements - 1)
    ELSE LET pending == ExecuteStatements(db, job_id, p, fail_at - 1)
             rolled == Rollback(db, pending)
         IN  IF status_write_ok
             THEN ErrorStatusUpsert(rolled, job_id, StoreErrorMessage)
             ELSE db

RECURSIVE SortById(_)
\* ORDER BY jd.id
SortById(S) ==
    IF S = {}
    THEN <<>>
    ELSE LET m == CHOOSE x \in S : \A y \in S : x <= y
         IN  <<StubRow(m)>> \o SortById(S \ {m})

\* A selection without the WHERE clause: every stub, completed ones included.
get_unprocessed_jobs_All(same_db, status) ==
    IF ~same_db THEN <<>> ELSE SortById(SJobs)

\* get_unprocessed_jobs(): the query joins jobs_data with processing_status on
\* the connection to the input database; when that database has no
\* processing_status table (the output database is another file) the
\* sqlite3.Error is caught and [] returned.
get_unprocessed_jobs(same_db, status) ==
    IF ~same_db
    THEN <<>>
    ELSE SortById({ j \in SJobs :
            \/ status[j].status = "absent"
            \/ status[j].status = "error"
            \/ (status[j].status = "pending" /\ status[j].retry_count < max_retries) })

\* WHERE status = 'error' AND retry_count > ?  (with max_retries): the job has
\* failed more than max_retries times.
Exhausted(status, j) ==
    status[j].status = "error" /\ status[j].retry_count > max_retries

\* DELETE FROM processing_status WHERE status = 'error' AND retry_count > ?
cleanup_failed_jobs(status) ==
    [j \in SJobs |-> IF Exhausted(status, j) THEN NoStatusRow ELSE status[j]]

\* Record of a _store_job_data call: whether it raised, whether it had written to
\* a data table before it raised, and the job's data rows before the call.
NoStoreCall ==
    [called |-> FALSE, job |-> 0, failed |-> FALSE, partial |-> FALSE, pre |-> NoData]

\* No extract_and_store call has returned.
NoReturn == [returned |-> FALSE]

\* The pair (job_data, education_data) a call returns: the payload of the
\* extraction (0: a JobExtraction / EducationExtraction built from defaults, with
\* requirements=[]) and job_data.full_link (0: None).
ReturnOf(p, full_link) ==
    [returned |-> TRUE,
     job_data |-> [payload |-> p, full_link |-> full_link],
     education_data |-> [requirements |-> p]]

\* A retry loop that sleeps two seconds every time.
retry_sleep_Constant(retry_count) == 2

\* asyncio.sleep(2 ** retry_count)
retry_sleep(retry_count) == Pow2(retry_count)

StoreInit ==
    /\ st_same_db \in BOOLEAN
    /\ st_db = EmptyOutputDb
    /\ bx_pc = "idle"
    /\ bx_queue = <<>>
    /\ es_job = 0
    /\ es_retry = 0
    /\ st_last = NoStoreCall
    /\ st_exhausted = {}
    /\ es_delays = <<>>
    /\ es_result = NoReturn

\* Entry of extract_and_store(job_id, full_link, content): nothing to do when the
\* preprocessed content is empty, else the retry loop starts.
EnterExtractAndStore(row) ==
    /\ es_delays' = <<>>
    /\ IF _preprocess_text(row.content) = ""
       THEN es_job' = 0 /\ es_retry' = 0 /\ es_result' = ReturnOf(0, 0)
       ELSE es_job' = row.id /\ es_retry' = 0 /\ es_result' = NoReturn

\* batch_extract() up to its first job: the work list is read once.
BatchExtractStart ==
    /\ bx_pc = "idle"
    /\ es_job = 0
    /\ LET unprocessed_jobs == get_unprocessed_jobs(st_same_db, st_db.status)
       IN  /\ bx_queue' = unprocessed_jobs
           /\ bx_pc' = IF unprocessed_jobs = <<>> THEN "idle" ELSE "running"
    /\ UNCHANGED <<st_same_db, st_db, es_job, es_retry, st_last, st_exhausted,
                   es_delays, es_result>>
    /\ UNCHANGED <<ingestVars, apiVars, fetchVars, pipeVars, educVars, raceVars, pageVars, scoreVars, poolVars, sessVars, limiterVars, salaryVars>>

\* batch_extract() takes the next job of its list, or returns at its end.
BatchExtractNext ==
    /\ bx_pc = "running"
    /\ es_job = 0
    /\ IF bx_queue = <<>>
       THEN bx_pc' = "idle" /\ UNCHANGED <<bx_queue, es_job, es_retry, es_delays, es_result>>
       ELSE /\ bx_queue' = Tail(bx_queue)
            /\ bx_pc' = "running"
            /\ EnterExtractAndStore(Head(bx_queue))
    /\ UNCHANGED <<st_same_db, st_db, st_last, st_exhausted>>
    /\ UNCHANGED <<ingestVars, apiVars, fetchVars, pipeVars, educVars, raceVars, pageVars, scoreVars, poolVars, sessVars, limiterVars, salaryVars>>

\* extract_and_store called on a stub outside a batch.
ExtractAndStoreCall(j) ==
    /\ bx_pc = "idle"
    /\ es_job = 0
    /\ EnterExtractAndStore(StubRow(j))
    /\ UNCHANGED <<st_same_db, st_db, bx_pc, bx_queue, st_last, st_exhausted>>
    /\ UNCHANGED <<ingestVars, apiVars, fetchVars, pipeVars, educVars, raceVars, pageVars, scoreVars, poolVars, sessVars, limiterVars, salaryVars>>

\* What follows an attempt of the retry loop that raised.
AttemptRaised ==
    IF es_retry + 1 >= max_retries
    THEN /\ es_job' = 0 /\ es_retry' = 0
         /\ es_result' = ReturnOf(0, es_job)
         /\ es_delays' = es_delays
    ELSE /\ es_job' = es_job /\ es_retry' = es_retry + 1
         /\ es_result' = es_result
         /\ es_delays' = Append(es_delays, retry_sleep(es_retry + 1))

\* One pass of the retry loop of extract_and_store: a chain raises.
ExtractAttemptChainFails ==
    /\ es_job # 0
    /\ AttemptRaised
    /\ UNCHANGED <<st_same_db, st_db, bx_pc, bx_queue, st_last, st_exhausted>>
    /\ UNCHANGED <<ingestVars, apiVars, fetchVars, pipeVars, educVars, raceVars, pageVars, scoreVars, poolVars, sessVars, limiterVars, salaryVars>>

\* Statements of _store_job_data at which a failure is tried: before the
\* transaction, its first and second statement, the last data table, the status
\* upsert, the commit, and NumStatements + 1 for a call that does not fail.
FailPoints ==
    {0, 1, 2, Len(DataTables), Len(DataTables) + 1, NumStatements, NumStatements + 1}

\* One pass of the retry loop of extract_and_store: the chains return payload p
\* and _store_job_data runs, raising at statement fail_at or not at all.
ExtractAttemptStore(p, fail_at, status_write_ok) ==
    /\ es_job # 0
    /\ fail_at > NumStatements => status_write_ok
    /\ (fail_at <= NumStatements /\ status_write_ok)
            => st_db.status[es_job].retry_count < MaxRetryCount
    /\ st_db' = _store_job_data(st_db, es_job, p, fail_at, status_write_ok)
    /\ st_last' = [called |-> TRUE, job |-> es_job,
                   failed |-> (fail_at <= NumStatements),
                   partial |-> (1 < fail_at /\ fail_at <= NumStatements),
                   pre |-> st_db.tables[es_job]]
    /\ IF fail_at > NumStatements
       THEN /\ es_job' = 0 /\ es_retry' = 0
            /\ es_result' = ReturnOf(p, es_job)
            /\ es_delays' = es_delays
       ELSE AttemptRaised
    /\ st_exhausted' = st_exhausted \cup { j \in SJobs : Exhausted(st_db'.status, j) }
    /\ UNCHANGED <<st_same_db, bx_pc, bx_queue>>
    /\ UNCHANGED <<ingestVars, apiVars, fetchVars, pipeVars, educVars, raceVars, pageVars, scoreVars, poolVars, sessVars, limiterVars, salaryVars>>

\* cleanup_failed_jobs(), run when no batch is in progress (as main() does).
CleanupFailedJobs ==
    /\ bx_pc = "idle"
    /\ es_job = 0
    /\ st_db' = [st_db EXCEPT !.status = cleanup_failed_jobs(st_db.status)]
    /\ UNCHANGED <<st_same_db, bx_pc, bx_queue, es_job, es_retry, st_last, st_exhausted,
                   es_delays, es_result>>
    /\ UNCHANGED <<ingestVars, apiVars, fetchVars, pipeVars, educVars, raceVars, pageVars, scoreVars, poolVars, sessVars, limiterVars, salaryVars>>

\* ---------------------------------------------------------------------------
\* Education requirements extractor: processors/educ_process.py,
\* processors/educ_try.py and the models of processors/pipeline2.py
\* ---------------------------------------------------------------------------

NumEJobs == 2

\* Cap on the rows of education_requirements in the model.
MaxEdRows == 4

EJobs == 1..NumEJobs

\* A job text: which text it is, its length in characters, and whether "..."
\* was appended to it.
EText(j) == [id |-> j, len |-> IF j = 1 THEN 120 ELSE 600, ellipsis |-> FALSE]

\* text[:n]
TextPrefix(text, n) ==
    [id |-> text.id, len |-> IF text.len < n THEN text.len ELSE n, ellipsis |-> FALSE]

\* job_text[:200] + "..." if len(job_text) > 200 else job_text
TextForError(text) ==
    IF text.len > 200 THEN [id |-> text.id, len |-> 200, ellipsis |-> TRUE] ELSE text

\* Requirement lists the AI collaborator can answer with; confidence_score is in
\* tenths (-3 is -0.3, 17 is 1.7).
RequirementAnswers ==
    { <<>>,
      << [level |-> "bachelor", field |-> " CS ", confidence_score |-> 17] >>,
      << [level |-> "master", field |-> "None", confidence_score |-> -3],
         [level |-> "phd", field |-> "law", confidence_score |-> 5] >>,
      << [level |-> "diploma", field |-> "law", confidence_score |-> 0],
         [level |-> "certificate", field |-> "None", confidence_score |-> 10] >> }

\* What the extraction chain does: it returns a parsed answer, the output parser
\* rejects the answer (OutputParserException), or the call fails otherwise (a
\* timeout, a connection error).
ChainOutcomes ==
    { [kind |-> "answer", requirements |-> a] : a \in RequirementAnswers }
    \cup { [kind |-> k, requirements |-> <<>>] : k \in {"malformed", "timeout"} }

\* field.lower().strip()
LowerStrip(f) == IF f = " CS " THEN "cs" ELSE f

\* educ_process._normalize_field_name: the standard name of a known synonym,
\* else the lower-cased, stripped field.
_normalize_field_name(f) ==
    IF LowerStrip(f) \in {"cs", "computer sci", "computing", "computer science"}
    THEN "computer science"
    ELSE LowerStrip(f)

\* min(max(x, 0.0), 1.0)
ClampMinMax(x) ==
    LET m == IF x > 0 THEN x ELSE 0
    IN  IF m < 10 THEN m ELSE 10

\* if x > 1.0: 1.0 elif x < 0.0: 0.0
ClampBranches(x) == IF x > 10 THEN 10 ELSE IF x < 0 THEN 0 ELSE x

\* educ_try._post_process_results
_post_process_results_try(requirements) ==
    [i \in DOMAIN requirements |->
        [level |-> requirements[i].level,
         field |-> IF requirements[i].field = "None" THEN "None"
                   ELSE LowerStrip(requirements[i].field),
         confidence_score |-> ClampMinMax(requirements[i].confidence_score)]]

\* educ_process._post_process_results
_post_process_results(requirements) ==
    [i \in DOMAIN requirements |->
        [level |-> requirements[i].level,
         field |-> IF requirements[i].field = "None" THEN "None"
                   ELSE _normalize_field_name(requirements[i].field),
         confidence_score |-> ClampBranches(requirements[i].confidence_score)]]

\* pipeline2.EducationRequirement: confidence_score: float = Field(ge=0.0, le=1.0);
\* the model accepts the answer only when every score is inside the range.
EducationRequirementValid(requirements) ==
    \A i \in DOMAIN requirements :
        /\ requirements[i].confidence_score >= 0
        /\ requirements[i].confidence_score <= 10

\* pipeline2 clean_field validator: v.lower().strip() when v is set.
clean_field(requirements) ==
    [i \in DOMAIN requirements |->
        [requirements[i] EXCEPT !.field = IF @ = "None" THEN "None" ELSE LowerStrip(@)]]

NoText == [id |-> 0, len |-> 0, ellipsis |-> FALSE]

\* Result of a call: it raised, or it returned an EducationExtraction.
Raised == [raised |-> TRUE, requirements |-> <<>>, raw_text_analyzed |-> NoText]

Returned(requirements, text) ==
    [raised |-> FALSE, requirements |-> requirements, raw_text_analyzed |-> text]

\* educ_process.extract_academic_details(job_text)
extract_academic_details(text, outcome) ==
    IF outcome.kind = "answer"
    THEN Returned(_post_process_results(outcome.requirements), text)
    ELSE IF outcome.kind = "malformed"
    THEN Returned(<<>>, TextForError(text))
    ELSE Raised

\* pipeline2 education_chain.invoke: prompt | llm | education_parser, the parser
\* building EducationExtraction and raising when the model rejects the answer.
education_chain_invoke(text, outcome) ==
    IF outcome.kind = "answer" /\ EducationRequirementValid(outcome.requirements)
    THEN Returned(clean_field(outcome.requirements), TextPrefix(text, 500))
    ELSE Raised

\* The rows educ_try.extract_and_store inserts for one job.
RowsOf(job_id, requirements) ==
    [i \in DOMAIN requirements |->
        [job_id |-> job_id, level |-> requirements[i].level,
         field |-> requirements[i].field,
         confidence_score |-> requirements[i].confidence_score]]

\* educ_try.extract_and_store(job_id, job_content): no exception is handled
\* here; the rows of the result are inserted and committed.
extract_and_store_try(table, job_id, text, outcome) ==
    IF outcome.kind = "answer"
    THEN LET result == _post_process_results_try(outcome.requirements)
         IN  [table |-> table \o RowsOf(job_id, result),
              result |-> Returned(result, text)]
    ELSE [table |-> table, result |-> Raised]

NoExtractCall ==
    [variant |-> "none", job |-> 0, outcome |-> [kind |-> "none", requirements |-> <<>>],
     result |-> Returned(<<>>, NoText)]

EducInit ==
    /\ ed_rows = <<>>
    /\ ed_pc = "idle"
    /\ ed_queue = <<>>
    /\ ed_written = [j \in EJobs |-> <<>>]
    /\ ed_last = NoExtractCall

\* educ_process.extract_academic_details called on the text of job j.
ExtractAcademicDetails(j, outcome) ==
    /\ ed_pc = "idle"
    /\ ed_last' = [variant |-> "educ_process", job |-> j, outcome |-> outcome,
                   result |-> extract_academic_details(EText(j), outcome)]
    /\ UNCHANGED <<ed_rows, ed_pc, ed_queue, ed_written>>
    /\ UNCHANGED <<ingestVars, apiVars, fetchVars, pipeVars, storeVars, raceVars, pageVars, scoreVars, poolVars, sessVars, limiterVars, salaryVars>>

\* The education chain of pipeline2.extract_and_store runs on the text of job j.
EducationChainInvoke(j, outcome) ==
    /\ ed_pc = "idle"
    /\ ed_last' = [variant |-> "pipeline2", job |-> j, outcome |-> outcome,
                   result |-> education_chain_invoke(EText(j), outcome)]
    /\ UNCHANGED <<ed_rows, ed_pc, ed_queue, ed_written>>
    /\ UNCHANGED <<ingestVars, apiVars, fetchVars, pipeVars, storeVars, raceVars, pageVars, scoreVars, poolVars, sessVars, limiterVars, salaryVars>>

\* The effect of one educ_try.extract_and_store call on the state.
RunExtractAndStoreTry(j, outcome) ==
    LET r == extract_and_store_try(ed_rows, j, EText(j), outcome)
    IN  /\ Len(r.table) <= MaxEdRows
        /\ ed_rows' = r.table
        /\ ed_written' = IF r.result.raised THEN ed_written
                         ELSE [ed_written EXCEPT ![j] = r.result.requirements]
        /\ ed_last' = [variant |-> "educ_try", job |-> j, outcome |-> outcome,
                       result |-> r.result]

\* educ_try.extract_and_store called on job j outside a batch.
ExtractAndStoreTry(j, outcome) ==
    /\ ed_pc = "idle"
    /\ RunExtractAndStoreTry(j, outcome)
    /\ UNCHANGED <<ed_pc, ed_queue>>
    /\ UNCHANGED <<ingestVars, apiVars, fetchVars, pipeVars, storeVars, raceVars, pageVars, scoreVars, poolVars, sessVars, limiterVars, salaryVars>>

RECURSIVE IdsInOrder(_)
\* SELECT id, content FROM jobs_data
IdsInOrder(S) ==
    IF S = {} THEN <<>>
    ELSE LET m == CHOOSE x \in S : \A y \in S : x <= y
         IN  <<m>> \o IdsInOrder(S \ {m})

\* educ_try.batch_extract reads every row of jobs_data.
BatchExtractTryStart ==
    /\ ed_pc = "idle"
    /\ ed_pc' = "batch"
    /\ ed_queue' = IdsInOrder(EJobs)
    /\ UNCHANGED <<ed_rows, ed_written, ed_last>>
    /\ UNCHANGED <<ingestVars, apiVars, fetchVars, pipeVars, storeVars, raceVars, pageVars, scoreVars, poolVars, sessVars, limiterVars, salaryVars>>

\* educ_try.batch_extract: extract_and_store on the next row inside try/except,
\* or the return after the last row.
BatchExtractTryNext ==
    /\ ed_pc = "batch"
    /\ IF ed_queue = <<>>
       THEN /\ ed_pc' = "idle"
            /\ UNCHANGED <<ed_rows, ed_queue, ed_written, ed_last>>
       ELSE /\ \E outcome \in ChainOutcomes : RunExtractAndStoreTry(Head(ed_queue), outcome)
            /\ ed_queue' = Tail(ed_queue)
            /\ ed_pc' = "batch"
    /\ UNCHANGED <<ingestVars, apiVars, fetchVars, pipeVars, storeVars, raceVars, pageVars, scoreVars, poolVars, sessVars, limiterVars, salaryVars>>

\* ---------------------------------------------------------------------------
\* Concurrent _store_job_data calls on one job (pipeline2.py), each on its own
\* connection to the output database
\* ---------------------------------------------------------------------------

NumWriters == 2

\* Each writer stores its own version of the record.
Writers == 1..NumWriters

\* The job all writers store.
RaceJob == 1

\* Positions of a writer: the number of statements it has executed, Committed
\* after its commit, Failed after its error handler.
Committed == NumStatements

Failed == NumStatements + 1

InErrorHandler == NumStatements + 2

\* conn.execute("BEGIN TRANSACTION"): the statements up to conn.commit() form
\* one transaction of the writer's connection.
ExplicitTransaction(w) == TRUE

\* Statement t of _store_job_data for payload p, applied to the view db.
ApplyStatement(db, job_id, p, t) ==
    IF t <= Len(DataTables)
    THEN [db EXCEPT !.tables[job_id][t] = p]
    ELSE [db EXCEPT !.status[job_id] = CompletedRow]

\* SQLite lets a connection write when no other connection holds the write lock.
CanWrite(w) == rc_lock \in {0, w}

RaceInit ==
    /\ rc_db = EmptyOutputDb
    /\ rc_view = EmptyOutputDb
    /\ rc_lock = 0
    /\ rc_pc = [w \in Writers |-> 0]
    /\ rc_order = <<>>

\* Writer w executes its next statement; the first write of a transaction takes
\* the write lock.
RaceExecute(w) ==
    /\ rc_pc[w] < NumStatements - 1
    /\ CanWrite(w)
    /\ IF ExplicitTransaction(w)
       THEN /\ rc_view' = ApplyStatement(IF rc_lock = w THEN rc_view ELSE rc_db,
                                         RaceJob, w, rc_pc[w] + 1)
            /\ rc_lock' = w
            /\ UNCHANGED rc_db
       ELSE /\ rc_db' = ApplyStatement(rc_db, RaceJob, w, rc_pc[w] + 1)
            /\ rc_view' = rc_db'
            /\ UNCHANGED rc_lock
    /\ rc_pc' = [rc_pc EXCEPT ![w] = @ + 1]
    /\ UNCHANGED rc_order
    /\ UNCHANGED <<ingestVars, apiVars, fetchVars, pipeVars, storeVars, educVars, pageVars, scoreVars, poolVars, sessVars, limiterVars, salaryVars>>

\* conn.commit() of writer w.
RaceCommit(w) ==
    /\ rc_pc[w] = NumStatements - 1
    /\ CanWrite(w)
    /\ rc_db' = IF rc_lock = w THEN rc_view ELSE rc_db
    /\ rc_view' = rc_db'
    /\ rc_lock' = 0
    /\ rc_pc' = [rc_pc EXCEPT ![w] = Committed]
    /\ rc_order' = Append(rc_order, w)
    /\ UNCHANGED <<ingestVars, apiVars, fetchVars, pipeVars, storeVars, educVars, pageVars, scoreVars, poolVars, sessVars, limiterVars, salaryVars>>

\* The write lock stays with another connection past the busy timeout: the
\* statement of writer w raises "database is locked" and the except branch starts
\* with conn.rollback().
RaceBusy(w) ==
    /\ rc_pc[w] < NumStatements
    /\ ~CanWrite(w)
    /\ rc_pc' = [rc_pc EXCEPT ![w] = InErrorHandler]
    /\ UNCHANGED <<rc_db, rc_view, rc_lock, rc_order>>
    /\ UNCHANGED <<ingestVars, apiVars, fetchVars, pipeVars, storeVars, educVars, pageVars, scoreVars, poolVars, sessVars, limiterVars, salaryVars>>

\* The error-status upsert of writer w and its commit, or `except: pass` when
\* the database is still locked.
RaceErrorStatus(w) ==
    /\ rc_pc[w] = InErrorHandler
    /\ IF CanWrite(w)
       THEN /\ rc_db' = ErrorStatusUpsert(rc_db, RaceJob, StoreErrorMessage)
            /\ rc_view' = rc_db'
       ELSE UNCHANGED <<rc_db, rc_view>>
    /\ rc_pc' = [rc_pc EXCEPT ![w] = Failed]
    /\ UNCHANGED <<rc_lock, rc_order>>
    /\ UNCHANGED <<ingestVars, apiVars, fetchVars, pipeVars, storeVars, educVars, pageVars, scoreVars, poolVars, sessVars, limiterVars, salaryVars>>

\* ---------------------------------------------------------------------------
\* Listing-page loops of the scrapers: backup/original/scrapers/scraper.py run,
\* scrapers/scraper.py get_pages/run, Nextstepjobs/scrapers/myjobmag.py scrape,
\* scrapers/spiders/brightermonday.py scrape
\* ---------------------------------------------------------------------------

\* Listing pages the site answers; every later page is a 404.
MaxPage == 3

\* Listings on a full listing page.
StubsPerPage == 3

\* ThreadPoolExecutor(max_workers=5) of the listing-page pool
max_workers == 5

ScraperVariants == {"backup", "scraper", "myjobmag", "brightermonday"}

\* scrape(batch_size=20) of myjobmag.py, and a batch size smaller than a page.
BatchSizes == {2, 20}

\* What the site answers for a listing page: a success status or not, and the
\* number of listing anchors in the HTML.
PageAnswers ==
    {[ok |-> TRUE, listings |-> StubsPerPage], [ok |-> TRUE, listings |-> 0],
     [ok |-> FALSE, listings |-> 0]}

NotFound == [ok |-> FALSE, listings |-> 0]

\* A site: the answers of pages 1..MaxPage and the largest page number in the
\* pagination links of page 1.
Sites == [pages : [1..MaxPage -> PageAnswers], last : 1..MaxPage]

NoSite == [pages |-> [p \in 1..MaxPage |-> NotFound], last |-> 1]

\* The listing stubs a site can show: stub k of page p.
PageStubs == (1..MaxPage) \X (1..StubsPerPage)

\* What the request for one job's detail page brings in brightermonday.py: a page
\* with article.job__details, a page without it, or a RequestException.
DetailOutcomes == {"article", "no_article", "failed"}

\* The answer of the site for listing page p.
AnswerOf(site, p) == IF p \in 1..MaxPage THEN site.pages[p] ELSE NotFound

\* fetch(url): rate_limited_get raises on a non-success status and fetch returns
\* None; the model keeps the answer and reads None as ~ok.
fetch(site, p) == AnswerOf(site, p)

\* parse_listings(html): the (title, link) stubs of page p.
parse_listings(p, answer) == [k \in 1..answer.listings |-> <<p, k>>]

\* detect_last_page(first, page_sel) if first else 1
get_pages(site) == IF fetch(site, 1).ok THEN site.last ELSE 1

\* The listing pages the variant walks when nothing stops it: range(1, last + 1)
\* in scraper.py, range(start_page, end_page + 1) in myjobmag.py, range(1, 131)
\* in brightermonday.py, unbounded in the backup scraper.
LastPlanned(variant, last) ==
    CASE variant = "scraper" -> last
      [] variant = "myjobmag" -> MaxPage + 1
      [] variant = "brightermonday" -> MaxPage + 1
      [] OTHER -> MaxPage + 1

\* The variants that hand the listing pages to a thread pool.
Pooled(variant) == variant \in {"scraper", "brightermonday"}

\* Stubs of the pages in htmls that were fetched, in page order.
RECURSIVE CollectListings(_, _)
CollectListings(htmls, p) ==
    IF p > Len(htmls) THEN <<>>
    ELSE (IF htmls[p].ok THEN parse_listings(p, htmls[p]) ELSE <<>>)
         \o CollectListings(htmls, p + 1)

PageInit ==
    /\ pg_pc = "idle"
    /\ pg_variant = "backup"
    /\ pg_site = NoSite
    /\ pg_last = 1
    /\ pg_next = 1
    /\ pg_taken = {}
    /\ pg_inflight = {}
    /\ pg_requested = <<>>
    /\ pg_htmls = <<>>
    /\ pg_jobs = <<>>
    /\ pg_pending = {}
    /\ pg_rows = <<>>
    /\ pg_k = 0
    /\ pg_batch_size = 20
    /\ pg_stored = <<>>

\* A run of one scraper variant against one site starts; batch_size is an
\* argument of myjobmag's scrape only.
PageRunStart(variant, site, batch_size) ==
    /\ pg_pc = "idle"
    /\ variant # "myjobmag" => batch_size = 20
    /\ pg_variant' = variant
    /\ pg_site' = site
    /\ pg_batch_size' = batch_size
    /\ pg_pc' = IF variant = "scraper" THEN "get_pages" ELSE "listing"
    /\ pg_last' = LastPlanned(variant, 1)
    /\ UNCHANGED <<pg_next, pg_taken, pg_inflight, pg_requested, pg_htmls, pg_jobs, pg_pending,
                   pg_rows, pg_k, pg_stored>>
    /\ UNCHANGED <<ingestVars, apiVars, fetchVars, pipeVars, storeVars, educVars, raceVars, scoreVars, poolVars, sessVars, limiterVars, salaryVars>>

\* scraper.py get_pages: page 1 is fetched once to read the last page number.
GetPages ==
    /\ pg_pc = "get_pages"
    /\ pg_requested' = Append(pg_requested, 1)
    /\ pg_last' = get_pages(pg_site)
    /\ pg_pc' = "listing"
    /\ UNCHANGED <<pg_variant, pg_site, pg_next, pg_taken, pg_inflight, pg_htmls, pg_jobs,
                   pg_pending, pg_rows, pg_k, pg_batch_size, pg_stored>>
    /\ UNCHANGED <<ingestVars, apiVars, fetchVars, pipeVars, storeVars, educVars, raceVars, scoreVars, poolVars, sessVars, limiterVars, salaryVars>>

\* Pooled variants: a free thread of the listing pool takes the next page off the
\* pool's queue; the pages are queued in range order.
PoolTakePage ==
    /\ pg_pc = "listing"
    /\ Pooled(pg_variant)
    /\ pg_next <= pg_last
    /\ Cardinality(pg_taken) + Cardinality(pg_inflight) < max_workers
    /\ pg_taken' = pg_taken \cup {pg_next}
    /\ pg_next' = pg_next + 1
    /\ UNCHANGED <<pg_pc, pg_variant, pg_site, pg_last, pg_inflight, pg_requested,
                   pg_htmls, pg_jobs, pg_pending, pg_rows, pg_k, pg_batch_size,
                   pg_stored>>
    /\ UNCHANGED <<ingestVars, apiVars, fetchVars, pipeVars, storeVars, educVars, raceVars, scoreVars, poolVars, sessVars, limiterVars, salaryVars>>

\* The request for listing page p goes out. The sequential loops request the
\* next page when the page before it has been handled. In the pooled variants
\* each thread sends the request for the page it took, in whatever order the
\* threads are scheduled.
PageRequest(p) ==
    /\ pg_pc = "listing"
    /\ IF Pooled(pg_variant)
       THEN /\ p \in pg_taken
            /\ pg_taken' = pg_taken \ {p}
            /\ UNCHANGED pg_next
       ELSE /\ p = pg_next
            /\ pg_next <= pg_last
            /\ pg_inflight = {}
            /\ pg_next' = pg_next + 1
            /\ UNCHANGED pg_taken
    /\ pg_inflight' = pg_inflight \cup {p}
    /\ pg_requested' = Append(pg_requested, p)
    /\ UNCHANGED <<pg_pc, pg_variant, pg_site, pg_last, pg_htmls, pg_jobs, pg_pending,
                   pg_rows, pg_k, pg_batch_size, pg_stored>>
    /\ UNCHANGED <<ingestVars, apiVars, fetchVars, pipeVars, storeVars, educVars, raceVars, scoreVars, poolVars, sessVars, limiterVars, salaryVars>>

\* The answer for listing page p arrives in the sequential loops. The backup
\* scraper adds the listings to jobs and breaks on a non-success status or an
\* empty page. myjobmag does `continue` on a page without listings and otherwise
\* submits process_job for every listing of the page to its detail pool.
PageResponseLoop(p) ==
    /\ pg_pc = "listing"
    /\ ~Pooled(pg_variant)
    /\ p \in pg_inflight
    /\ pg_inflight' = pg_inflight \ {p}
    /\ LET answer == fetch(pg_site, p)
           listings == IF answer.ok THEN parse_listings(p, answer) ELSE <<>>
       IN  IF pg_variant = "backup"
           THEN /\ pg_jobs' = pg_jobs \o listings
                /\ pg_pc' = IF listings = <<>> THEN "details" ELSE "listing"
                /\ UNCHANGED pg_pending
           ELSE /\ pg_jobs' = listings
                /\ pg_pending' = Range(listings)
                /\ pg_pc' = IF listings # <<>> THEN "page_details"
                            ELSE IF pg_next > pg_last THEN "done" ELSE "listing"
    /\ UNCHANGED <<pg_variant, pg_site, pg_last, pg_next, pg_taken, pg_requested,
                   pg_htmls, pg_rows, pg_k, pg_batch_size, pg_stored>>
    /\ UNCHANGED <<ingestVars, apiVars, fetchVars, pipeVars, storeVars, educVars, raceVars, scoreVars, poolVars, sessVars, limiterVars, salaryVars>>

\* myjobmag: as_completed hands the loop the future of one of the page's jobs,
\* whichever detail request finished next; process_job returns the job with or
\* without content, and the job is appended to completed_jobs.
ProcessJobDone(job) ==
    /\ pg_pc = "page_details"
    /\ job \in pg_pending
    /\ Len(pg_rows) < pg_batch_size
    /\ pg_pending' = pg_pending \ {job}
    /\ pg_rows' = Append(pg_rows, job)
    /\ UNCHANGED <<pg_pc, pg_variant, pg_site, pg_last, pg_next, pg_taken, pg_inflight,
                   pg_requested, pg_htmls, pg_jobs, pg_k, pg_batch_size, pg_stored>>
    /\ UNCHANGED <<ingestVars, apiVars, fetchVars, pipeVars, storeVars, educVars, raceVars, scoreVars, poolVars, sessVars, limiterVars, salaryVars>>

\* myjobmag: self.db.batch_insert(completed_jobs), inside the as_completed loop
\* when completed_jobs has reached batch_size, and after the loop for the jobs
\* that remain.
CompletedJobsInsert ==
    /\ pg_pc = "page_details"
    /\ \/ Len(pg_rows) >= pg_batch_size
       \/ pg_pending = {} /\ pg_rows # <<>>
    /\ pg_stored' = pg_stored \o pg_rows
    /\ pg_rows' = <<>>
    /\ UNCHANGED <<pg_pc, pg_variant, pg_site, pg_last, pg_next, pg_taken, pg_inflight,
                   pg_requested, pg_htmls, pg_jobs, pg_pending, pg_k, pg_batch_size>>
    /\ UNCHANGED <<ingestVars, apiVars, fetchVars, pipeVars, storeVars, educVars, raceVars, scoreVars, poolVars, sessVars, limiterVars, salaryVars>>

\* myjobmag: the page's jobs are all inserted; after sleep(1) the loop goes on
\* to the next page or ends.
PageSleepDone ==
    /\ pg_pc = "page_details"
    /\ pg_pending = {}
    /\ pg_rows = <<>>
    /\ pg_pc' = IF pg_next > pg_last THEN "done" ELSE "listing"
    /\ UNCHANGED <<pg_variant, pg_site, pg_last, pg_next, pg_taken, pg_inflight, pg_requested,
                   pg_htmls, pg_jobs, pg_pending, pg_rows, pg_k, pg_batch_size,
                   pg_stored>>
    /\ UNCHANGED <<ingestVars, apiVars, fetchVars, pipeVars, storeVars, educVars, raceVars, scoreVars, poolVars, sessVars, limiterVars, salaryVars>>

\* The answer for listing page p arrives at its pool thread; when the pool has
\* answered every page, the htmls are parsed in page order.
PageResponsePool(p) ==
    /\ pg_pc = "listing"
    /\ Pooled(pg_variant)
    /\ p \in pg_inflight
    /\ pg_inflight' = pg_inflight \ {p}
    /\ IF pg_inflight' = {} /\ pg_taken = {} /\ pg_next > pg_last
       THEN /\ pg_htmls' = [q \in 1..pg_last |-> fetch(pg_site, q)]
            /\ pg_jobs' = CollectListings(pg_htmls', 1)
            /\ pg_pc' = "details"
       ELSE UNCHANGED <<pg_htmls, pg_jobs, pg_pc>>
    /\ UNCHANGED <<pg_variant, pg_site, pg_last, pg_next, pg_taken, pg_requested,
                   pg_pending, pg_rows, pg_k, pg_batch_size, pg_stored>>
    /\ UNCHANGED <<ingestVars, apiVars, fetchVars, pipeVars, storeVars, educVars, raceVars, scoreVars, poolVars, sessVars, limiterVars, salaryVars>>

\* brightermonday.py scrape, one job of the listing pages at a time and in page
\* order: requests.get of the job's detail page, and insert_data of the job when
\* the page has article.job__details. A job whose request fails or whose page
\* lacks the article is logged and not stored.
JobDetailAndInsert(outcome) ==
    /\ pg_pc = "details"
    /\ pg_variant = "brightermonday"
    /\ pg_k < Len(pg_jobs)
    /\ pg_k' = pg_k + 1
    /\ pg_stored' = IF outcome = "article"
                    THEN Append(pg_stored, pg_jobs[pg_k + 1])
                    ELSE pg_stored
    /\ UNCHANGED <<pg_pc, pg_variant, pg_site, pg_last, pg_next, pg_taken, pg_inflight,
                   pg_requested, pg_htmls, pg_jobs, pg_pending, pg_rows, pg_batch_size>>
    /\ UNCHANGED <<ingestVars, apiVars, fetchVars, pipeVars, storeVars, educVars, raceVars, scoreVars, poolVars, sessVars, limiterVars, salaryVars>>

\* brightermonday.py scrape returns when the last job has been handled.
ScrapeReturn ==
    /\ pg_pc = "details"
    /\ pg_variant = "brightermonday"
    /\ pg_k = Len(pg_jobs)
    /\ pg_pc' = "done"
    /\ UNCHANGED <<pg_variant, pg_site, pg_last, pg_next, pg_taken, pg_inflight, pg_requested,
                   pg_htmls, pg_jobs, pg_pending, pg_rows, pg_k, pg_batch_size,
                   pg_stored>>
    /\ UNCHANGED <<ingestVars, apiVars, fetchVars, pipeVars, storeVars, educVars, raceVars, scoreVars, poolVars, sessVars, limiterVars, salaryVars>>

\* scraper.py and the backup scraper: the worker pool fetches the detail page of
\* every collected stub and builds one row per stub, with empty content when the
\* detail fetch fails; rows is the list of the pool's results in stub order.
PageDetailsPool ==
    /\ pg_pc = "details"
    /\ pg_variant \in {"backup", "scraper"}
    /\ pg_rows' = pg_jobs
    /\ pg_pc' = "store"
    /\ UNCHANGED <<pg_variant, pg_site, pg_last, pg_next, pg_taken, pg_inflight, pg_requested,
                   pg_htmls, pg_jobs, pg_pending, pg_k, pg_batch_size, pg_stored>>
    /\ UNCHANGED <<ingestVars, apiVars, fetchVars, pipeVars, storeVars, educVars, raceVars, scoreVars, poolVars, sessVars, limiterVars, salaryVars>>

\* scraper.py and the backup scraper: self.db.batch_insert(rows)
PageBatchInsert ==
    /\ pg_pc = "store"
    /\ pg_stored' = pg_rows
    /\ pg_pc' = "done"
    /\ UNCHANGED <<pg_variant, pg_site, pg_last, pg_next, pg_taken, pg_inflight, pg_requested,
                   pg_htmls, pg_jobs, pg_pending, pg_rows, pg_k, pg_batch_size>>
    /\ UNCHANGED <<ingestVars, apiVars, fetchVars, pipeVars, storeVars, educVars, raceVars, scoreVars, poolVars, sessVars, limiterVars, salaryVars>>

\* ---------------------------------------------------------------------------
\* _calculate_quality_score (pipeline2.py) on every combination of present and
\* absent fields
\* ---------------------------------------------------------------------------

\* extracted_data dicts with each scored field empty or filled.
ScoreExtractedInputs ==
    [title : {"", "Engineer", "Nurse"}, company : {"", "Unknown", "Acme"},
     description : {"", "Build things"}, skills : {<<>>, <<"Python">>},
     requirements : {<<>>, <<"3 years of experience">>},
     salary : {"None", "KES 80000"}]

\* ai_data dicts: {} and dicts with the five AI keys, the two scored lists empty
\* or filled.
ScoreAiInputs ==
    {AiEmpty} \cup
    { [keys |-> AiFull.keys,
       val |-> [skills_analysis |-> sa, role_level |-> "Senior", remote_friendly |-> TRUE,
                growth_potential |-> "High", key_responsibilities |-> kr]] :
        sa \in {<<>>, <<"Python">>}, kr \in {<<>>, <<"Build things">>} }

ScoreInit ==
    /\ qs_called = FALSE
    /\ qs_extracted = NoExtracted
    /\ qs_ai = AiEmpty
    /\ qs_score = 0

\* self._calculate_quality_score(extracted_data, ai_data)
CalculateQualityScore(extracted, ai) ==
    /\ qs_called' = TRUE
    /\ qs_extracted' = extracted
    /\ qs_ai' = ai
    /\ qs_score' = _calculate_quality_score(extracted, ai)
    /\ UNCHANGED <<ingestVars, apiVars, fetchVars, pipeVars, storeVars, educVars, raceVars,
                   pageVars, poolVars, sessVars, limiterVars, salaryVars>>

\* ---------------------------------------------------------------------------
\* batch_extract_async (pipeline2.py): the tasks of the backlog behind
\* asyncio.Semaphore(max_concurrent)
\* ---------------------------------------------------------------------------

\* Jobs get_unprocessed_jobs hands to batch_extract_async.
NumTasks == 4

\* Largest max_concurrent the caller passes.
MaxConcurrent == 2

Tasks == 1..NumTasks

\* A semaphore that never blocks.
SemaphoreFree_Always(permits) == TRUE

\* `async with semaphore`: the task goes on when a permit is left.
SemaphoreFree(permits) == permits > 0

\* Tasks inside `async with semaphore`: in extraction, enhancement or store.
RunningTasks == { t \in Tasks : wp_task[t] = "running" }

PoolInit ==
    /\ wp_pc = "idle"
    /\ wp_max_concurrent = 1
    /\ wp_permits = 0
    /\ wp_task = [t \in Tasks |-> "none"]

\* batch_extract_async(max_concurrent): the semaphore is created and one
\* process_with_semaphore task per unprocessed job is handed to asyncio.gather.
BatchExtractAsyncStart(max_concurrent) ==
    /\ wp_pc = "idle"
    /\ wp_max_concurrent' = max_concurrent
    /\ wp_permits' = max_concurrent
    /\ wp_task' = [t \in Tasks |-> "waiting"]
    /\ wp_pc' = "gather"
    /\ UNCHANGED <<ingestVars, apiVars, fetchVars, pipeVars, storeVars, educVars, raceVars,
                   pageVars, scoreVars, sessVars, limiterVars, salaryVars>>

\* Task t enters `async with semaphore` and starts extract_and_store_async.
SemaphoreAcquire(t) ==
    /\ wp_pc = "gather"
    /\ wp_task[t] = "waiting"
    /\ SemaphoreFree(wp_permits)
    /\ wp_permits' = wp_permits - 1
    /\ wp_task' = [wp_task EXCEPT ![t] = "running"]
    /\ UNCHANGED <<wp_pc, wp_max_concurrent>>
    /\ UNCHANGED <<ingestVars, apiVars, fetchVars, pipeVars, storeVars, educVars, raceVars,
                   pageVars, scoreVars, sessVars, limiterVars, salaryVars>>

\* extract_and_store_async of task t returns or raises; leaving the `async with`
\* block gives the permit back either way.
SemaphoreRelease(t, raised) ==
    /\ wp_pc = "gather"
    /\ wp_task[t] = "running"
    /\ wp_permits' = wp_permits + 1
    /\ wp_task' = [wp_task EXCEPT ![t] = IF raised THEN "raised" ELSE "returned"]
    /\ UNCHANGED <<wp_pc, wp_max_concurrent>>
    /\ UNCHANGED <<ingestVars, apiVars, fetchVars, pipeVars, storeVars, educVars, raceVars,
                   pageVars, scoreVars, sessVars, limiterVars, salaryVars>>

\* asyncio.gather(*tasks, return_exceptions=True) returns when every task is done.
BatchExtractAsyncJoin ==
    /\ wp_pc = "gather"
    /\ \A t \in Tasks : wp_task[t] \in {"returned", "raised"}
    /\ wp_pc' = "done"
    /\ UNCHANGED <<wp_max_concurrent, wp_permits, wp_task>>
    /\ UNCHANGED <<ingestVars, apiVars, fetchVars, pipeVars, storeVars, educVars, raceVars,
                   pageVars, scoreVars, sessVars, limiterVars, salaryVars>>

\* ---------------------------------------------------------------------------
\* scrapers/utils.py: rate_limited_get on a session built by get_session
\* ---------------------------------------------------------------------------

\* get_session(retries=3, ...): Retry(total=retries)
SessionRetries == 3

\* get_session(..., backoff=0.3): Retry(backoff_factor=backoff), in tenths of a second
BackoffTenths == 3

\* Retry(status_forcelist=[500, 502, 503, 504])
status_forcelist == {"500", "502", "503", "504"}

\* Status codes the site answers (a 429 carries no Retry-After header).
SessionResponses == {"200", "404", "429", "500", "503"}

\* The site's answers to the successive requests of one session.get.
SessionScripts == [1..(SessionRetries + 1) -> SessionResponses]

\* Retry.get_backoff_time() before retry number n of one request: nothing before
\* the first retry, then backoff_factor * 2 ** (n - 1).
get_backoff_time(n) == IF n <= 1 THEN 0 ELSE BackoffTenths * Pow2(n - 1)

\* Retry.is_retry(status): the status is in status_forcelist.
is_retry(status) == status \in status_forcelist

SessionInit ==
    /\ sg_pc = "idle"
    /\ sg_script = <<>>
    /\ sg_log = <<>>
    /\ sg_delays = <<>>
    /\ sg_result = "none"

\* rate_limited_get(session, url): the site's answers are fixed by sg_script.
RateLimitedGetCall(script) ==
    /\ sg_pc = "idle"
    /\ sg_script' = script
    /\ sg_log' = <<>>
    /\ sg_delays' = <<>>
    /\ sg_result' = "none"
    /\ sg_pc' = "get"
    /\ UNCHANGED <<ingestVars, apiVars, fetchVars, pipeVars, storeVars, educVars, raceVars,
                   pageVars, scoreVars, poolVars, limiterVars, salaryVars>>

\* One request of session.get. A status of the forcelist is retried after the
\* backoff while retries are left and raises when they are used up; any other
\* answer is returned, and response.raise_for_status() raises HTTPError unless it
\* is a success.
SessionRequest ==
    /\ sg_pc = "get"
    /\ LET resp == sg_script[Len(sg_log) + 1]
           retried == Len(sg_log)
       IN  /\ sg_log' = Append(sg_log, resp)
           /\ IF is_retry(resp) /\ retried < SessionRetries
              THEN /\ sg_delays' = Append(sg_delays, get_backoff_time(retried + 1))
                   /\ UNCHANGED <<sg_pc, sg_result>>
              ELSE /\ sg_result' = IF resp = "200" THEN "body" ELSE "raised"
                   /\ sg_pc' = "done"
                   /\ UNCHANGED sg_delays
    /\ UNCHANGED sg_script
    /\ UNCHANGED <<ingestVars, apiVars, fetchVars, pipeVars, storeVars, educVars, raceVars,
                   pageVars, scoreVars, poolVars, limiterVars, salaryVars>>

\* ---------------------------------------------------------------------------
\* scrapers/utils.py rate_limited_get: @sleep_and_retry @limits(calls=
\* REQUESTS_PER_MINUTE, period=ONE_MINUTE), shared by the worker threads
\* ---------------------------------------------------------------------------

\* REQUESTS_PER_MINUTE of the configuration.
RequestsPerMinute == 2

\* Clock ticks in ONE_MINUTE.
TicksPerMinute == 2

\* The clock stops at this tick.
MaxClock == 2

\* Worker threads that share rate_limited_get.
NumThreads == 2

Threads == 1..NumThreads

\* limits.__period_remaining(): period - (clock() - last_reset)
period_remaining(limiter, now) == TicksPerMinute - (now - limiter.last_reset)

\* limits.__call__ under its lock: the window is reset when the period has
\* elapsed, the call is counted, and a call beyond `calls` raises
\* RateLimitException(period_remaining).
limits_call(limiter, now) ==
    LET remaining == period_remaining(limiter, now)
        fresh == IF remaining <= 0
                 THEN [num_calls |-> 0, last_reset |-> now]
                 ELSE limiter
        counted == [fresh EXCEPT !.num_calls = @ + 1]
    IN  [limiter |-> counted,
         allowed |-> counted.num_calls <= RequestsPerMinute,
         wait |-> IF remaining <= 0 THEN 0 ELSE remaining]

\* The count of a per-tick tally over the ticks from..to.
RECURSIVE IssuedIn(_, _, _)
IssuedIn(issued, from, to) ==
    IF from > to THEN 0 ELSE issued[from] + IssuedIn(issued, from + 1, to)

\* A thread outside rate_limited_get.
IdleThread == [state |-> "idle", wake |-> 0, sent |-> 0]

LimiterInit ==
    /\ rl_clock = 0
    /\ rl_limiter = [num_calls |-> 0, last_reset |-> 0]
    /\ rl_thread = [th \in Threads |-> IdleThread]
    /\ rl_calls = [t \in 0..MaxClock |-> 0]
    /\ rl_issued = [t \in 0..MaxClock |-> 0]

\* Time passes.
ClockTick ==
    /\ rl_clock < MaxClock
    /\ rl_clock' = rl_clock + 1
    /\ UNCHANGED <<rl_limiter, rl_thread, rl_calls, rl_issued>>
    /\ UNCHANGED <<ingestVars, apiVars, fetchVars, pipeVars, storeVars, educVars, raceVars,
                   pageVars, scoreVars, poolVars, sessVars, salaryVars>>

\* Thread th calls rate_limited_get, or sleep_and_retry calls it again when the
\* thread's sleep is over: @limits counts the call and lets it into the body, or
\* raises RateLimitException and sleep_and_retry puts the thread to sleep for the
\* rest of the period.
SleepAndRetry(th) ==
    /\ \/ rl_thread[th].state = "idle"
       \/ rl_thread[th].state = "sleeping" /\ rl_thread[th].wake <= rl_clock
    /\ LET r == limits_call(rl_limiter, rl_clock)
       IN  /\ rl_limiter' = r.limiter
           /\ IF r.allowed
              THEN /\ rl_calls' = [rl_calls EXCEPT ![rl_clock] = @ + 1]
                   /\ rl_thread' = [rl_thread EXCEPT ![th] =
                                        [state |-> "body", wake |-> 0, sent |-> 0]]
              ELSE /\ rl_thread' = [rl_thread EXCEPT ![th] =
                                        [state |-> "sleeping", wake |-> rl_clock + r.wait,
                                         sent |-> 0]]
                   /\ UNCHANGED rl_calls
    /\ UNCHANGED <<rl_clock, rl_issued>>
    /\ UNCHANGED <<ingestVars, apiVars, fetchVars, pipeVars, storeVars, educVars, raceVars,
                   pageVars, scoreVars, poolVars, sessVars, salaryVars>>

\* The body of rate_limited_get in thread th: session.get sends one request and
\* the site answers `status`. A status of the forcelist is retried, after the
\* backoff, while retries are left; any other answer, or the last retry, ends
\* session.get.
SessionGet(th, status) ==
    /\ rl_thread[th].state = "body"
    /\ rl_issued' = [rl_issued EXCEPT ![rl_clock] = @ + 1]
    /\ rl_thread' = [rl_thread EXCEPT ![th] =
                        IF is_retry(status) /\ rl_thread[th].sent < SessionRetries
                        THEN [@ EXCEPT !.sent = @ + 1]
                        ELSE [@ EXCEPT !.state = "returning", !.sent = @ + 1]]
    /\ UNCHANGED <<rl_clock, rl_limiter, rl_calls>>
    /\ UNCHANGED <<ingestVars, apiVars, fetchVars, pipeVars, storeVars, educVars, raceVars,
                   pageVars, scoreVars, poolVars, sessVars, salaryVars>>

\* rate_limited_get leaves thread th: session.get or raise_for_status raised, or
\* time.sleep(0.05) is over and the response is returned.
RateLimitedGetReturn(th) ==
    /\ rl_thread[th].state = "returning"
    /\ rl_thread' = [rl_thread EXCEPT ![th] = IdleThread]
    /\ UNCHANGED <<rl_clock, rl_limiter, rl_calls, rl_issued>>
    /\ UNCHANGED <<ingestVars, apiVars, fetchVars, pipeVars, storeVars, educVars, raceVars,
                   pageVars, scoreVars, poolVars, sessVars, salaryVars>>

\* ---------------------------------------------------------------------------
\* JobProcessor._parse_salary (pipeline2.py) on salary snippets
\* ---------------------------------------------------------------------------

\* Longest snippet, in tokens, of the exhaustive inputs.
MaxSnippet == 4

\* A snippet is a sequence of tokens: runs of digits, the comma, the dollar sign,
\* words, and "-" for any other separator.
DigitTokens == {"9", "00", "80", "95", "120", "000"}

\* int() of a run of digits and the number of its digits.
DigitValue(tok) ==
    CASE tok = "9" -> 9 [] tok = "80" -> 80 [] tok = "95" -> 95 [] tok = "120" -> 120
      [] OTHER -> 0

DigitWidth(tok) ==
    CASE tok = "9" -> 1 [] tok \in {"00", "80", "95"} -> 2 [] OTHER -> 3

\* Tokens of the exhaustive inputs.
SnippetTokens == {"$", "KES", "kes", "9", "00", ",", "-", "year", "annual", "month"}

\* "KES 80,000 - 120,000 per month" and "$95,000 per year"
SnippetKesRange ==
    <<"KES", "-", "80", ",", "000", "-", "-", "-", "120", ",", "000", "-", "per", "-", "month">>

SnippetUsdAmount == <<"$", "95", ",", "000", "-", "per", "-", "year">>

Snippets ==
    UNION { [1..n -> SnippetTokens] : n \in 0..MaxSnippet }
        \cup {SnippetKesRange, SnippetUsdAmount}

\* A replace that turns each comma into a separator.
replace_commas_BySeparator(text) ==
    [i \in 1..Len(text) |-> IF text[i] = "," THEN "-" ELSE text[i]]

\* salary_text.replace(',', '')
replace_commas(text) == SelectSeq(text, LAMBDA tok : tok # ",")

\* str.lower() of a token.
Lower(tok) == IF tok = "KES" THEN "kes" ELSE tok

\* re.findall(r'[\d,]+', text): the maximal runs of digits, each as [value, width];
\* run is the run being read, or NoRun.
NoRun == [value |-> 0, width |-> 0]

RECURSIVE findall_numbers(_, _, _)
findall_numbers(text, i, run) ==
    IF i > Len(text)
    THEN IF run.width > 0 THEN <<run>> ELSE <<>>
    ELSE IF text[i] \in DigitTokens
    THEN findall_numbers(text, i + 1,
             [value |-> run.value * (10 ^ DigitWidth(text[i])) + DigitValue(text[i]),
              width |-> run.width + DigitWidth(text[i])])
    ELSE IF text[i] = ","
    THEN findall_numbers(text, i + 1, run)
    ELSE (IF run.width > 0 THEN <<run>> ELSE <<>>) \o findall_numbers(text, i + 1, NoRun)

\* `word in salary_text` / `word in salary_text.lower()`
Contains(text, word, lowered) ==
    \E i \in 1..Len(text) : (IF lowered THEN Lower(text[i]) ELSE text[i]) = word

\* _parse_salary(salary_text)
_parse_salary(salary_text) ==
    LET numbers == findall_numbers(replace_commas(salary_text), 1, NoRun)
        currency == IF Contains(salary_text, "$", FALSE) THEN "USD"
                    ELSE IF Contains(salary_text, "kes", TRUE) THEN "KES"
                    ELSE "KSH"
        period == IF Contains(salary_text, "year", TRUE) \/ Contains(salary_text, "annual", TRUE)
                  THEN "year" ELSE "month"
    IN  IF Len(numbers) >= 2
        THEN [min |-> numbers[1].value, max |-> numbers[2].value, currency |-> currency,
              period |-> period, raw |-> salary_text]
        ELSE IF Len(numbers) = 1
        THEN [amount |-> numbers[1].value, currency |-> currency, period |-> period,
              raw |-> salary_text]
        ELSE [raw |-> salary_text]

\* No call yet (Python None).
NoSalary == [none |-> TRUE]

SalaryInit ==
    /\ ps_text = <<>>
    /\ ps_result = NoSalary

\* self._parse_salary(salary_text), called by _extract_salary with the text of
\* the salary element or of the matched pattern.
ParseSalary(salary_text) ==
    /\ ps_result = NoSalary
    /\ ps_text' = salary_text
    /\ ps_result' = _parse_salary(salary_text)
    /\ UNCHANGED <<ingestVars, apiVars, fetchVars, pipeVars, storeVars, educVars, raceVars,
                   pageVars, scoreVars, poolVars, sessVars, limiterVars>>

Init ==
    /\ IngestInit /\ ApiInit /\ FetchInit /\ PipeInit /\ StoreInit /\ EducInit
    /\ RaceInit /\ PageInit /\ ScoreInit /\ PoolInit /\ SessionInit
    /\ LimiterInit /\ SalaryInit

NextIngest == BatchInsertCall \/ BatchInsertRow \/ BatchInsertCommit \/ DatabaseClose

NextApi ==
    \E r \in Requests :
        \/ ScrapeJobsCall(r)
        \/ ScrapeSource(r)
        \/ StoreScrapedJob(r)
        \/ ScrapeJobsReturn(r)

NextFetch == FetchPageCall \/ FetchPageAttempt

SpecIngest == Init /\ [][NextIngest]_vars

SpecApi == Init /\ [][NextApi]_vars

NextPipe ==
    \/ PjBatchStart
    \/ \E j \in PJobs : PjFetchDone(j) \/ PjExtract(j) \/ PjEnhance(j)
    \/ PjBatchJoin
    \/ PjSleepDone
    \/ PjStore
    \/ PjFinish

SpecFetch == Init /\ [][NextFetch]_vars

SpecPipe == Init /\ [][NextPipe]_vars

ExtractAttempt ==
    \/ ExtractAttemptChainFails
    \/ \E p \in Payloads, fail_at \in FailPoints, ok \in BOOLEAN :
            ExtractAttemptStore(p, fail_at, ok)

\* batch_extract and cleanup_failed_jobs runs, as main() drives them.
NextBatch ==
    \/ BatchExtractStart
    \/ BatchExtractNext
    \/ ExtractAttempt
    \/ CleanupFailedJobs

\* The same, and extract_and_store called on single stubs.
NextStore ==
    \/ NextBatch
    \/ \E j \in SJobs : ExtractAndStoreCall(j)

SpecBatch == Init /\ [][NextBatch]_vars

SpecStore == Init /\ [][NextStore]_vars

\* The three extractor variants, each callable at any time.
NextEduc ==
    \/ \E j \in EJobs, outcome \in ChainOutcomes :
          \/ ExtractAcademicDetails(j, outcome)
          \/ EducationChainInvoke(j, outcome)
          \/ ExtractAndStoreTry(j, outcome)
    \/ BatchExtractTryStart
    \/ BatchExtractTryNext

SpecEduc == Init /\ [][NextEduc]_vars

NextRace ==
    \E w \in Writers :
        RaceExecute(w) \/ RaceCommit(w) \/ RaceBusy(w) \/ RaceErrorStatus(w)

SpecRace == Init /\ [][NextRace]_vars

NextPage ==
    \/ \E variant \in ScraperVariants, site \in Sites, batch_size \in BatchSizes :
            PageRunStart(variant, site, batch_size)
    \/ GetPages
    \/ PoolTakePage
    \/ \E p \in 1..(MaxPage + 1) :
          PageRequest(p) \/ PageResponseLoop(p) \/ PageResponsePool(p)
    \/ \E job \in PageStubs : ProcessJobDone(job)
    \/ CompletedJobsInsert
    \/ PageSleepDone
    \/ \E outcome \in DetailOutcomes : JobDetailAndInsert(outcome)
    \/ ScrapeReturn
    \/ PageDetailsPool
    \/ PageBatchInsert

SpecPage == Init /\ [][NextPage]_vars

NextScore ==
    \E extracted \in ScoreExtractedInputs, ai \in ScoreAiInputs :
        CalculateQualityScore(extracted, ai)

SpecScore == Init /\ [][NextScore]_vars

NextPool ==
    \/ \E max_concurrent \in 1..MaxConcurrent : BatchExtractAsyncStart(max_concurrent)
    \/ \E t \in Tasks : SemaphoreAcquire(t)
    \/ \E t \in Tasks, raised \in BOOLEAN : SemaphoreRelease(t, raised)
    \/ BatchExtractAsyncJoin

SpecPool == Init /\ [][NextPool]_vars

NextSession ==
    \/ \E script \in SessionScripts : RateLimitedGetCall(script)
    \/ SessionRequest

SpecSession == Init /\ [][NextSession]_vars

NextLimiter ==
    \/ ClockTick
    \/ \E th \in Threads :
          \/ SleepAndRetry(th)
          \/ \E status \in SessionResponses : SessionGet(th, status)
          \/ RateLimitedGetReturn(th)

SpecLimiter == Init /\ [][NextLimiter]_vars

NextSalary ==
    /\ ps_result = NoSalary
    /\ \E salary_text \in Snippets : ParseSalary(salary_text)

SpecSalary == Init /\ [][NextSalary]_vars

\* fetch_page waits longer after a 429 than after a 5xx answer in every
\* iteration, and goes on to the next iteration after a 429.
FetchPage429BackoffLonger ==
    /\ \A attempt \in 0..(FetchRetries - 1) :
          fetch_page_sleep("429", attempt) > fetch_page_sleep("503", attempt)
    /\ (fp_pc = "done" /\ fp_log[1] = "429" /\ FetchRetries > 1) => Len(fp_log) > 1

\* C20: a 429 answer is retried rather than failed at once, and the wait before
\* the retry after a 429 is strictly longer than the wait before the retry after
\* a 500/502/503/504 answer at the same attempt number.
C20_RateLimitBackoffLonger ==
    (sg_pc = "done" /\ sg_log[1] = "429")
        => /\ Len(sg_log) > 1
           /\ Len(sg_delays) >= 1
           /\ sg_delays[1] > get_backoff_time(1)

\* The eight indicators of the score: which scored fields are present.
Indicators(extracted, ai) ==
    <<extracted.title # "",
      extracted.company # "" /\ extracted.company # "Unknown",
      extracted.description # "", extracted.skills # <<>>,
      extracted.requirements # <<>>, extracted.salary # "None",
      AiGet(ai, "skills_analysis", <<>>) # <<>>,
      AiGet(ai, "key_responsibilities", <<>>) # <<>> >>

\* C15: for every combination of present and absent extracted fields and AI
\* data the quality score lies in [0, 1] (0..10 tenths); it is 0 when all
\* extracted fields are empty and there is no AI data; and any other input with the
\* same eight indicators gets the same score.
C15_QualityScoreBounds ==
    qs_called =>
        /\ qs_score \in 0..10
        /\ (qs_extracted = NoExtracted /\ qs_ai = AiEmpty) => qs_score = 0
        /\ \A e \in ScoreExtractedInputs, a \in ScoreAiInputs :
              Indicators(e, a) = Indicators(qs_extracted, qs_ai)
                  => _calculate_quality_score(e, a) = qs_score

\* C15 witness: the score was computed for an input with all eight indicators
\* present and reached 1.0, and the input is not one of the pipeline samples.
C15_Witness ==
    /\ qs_called
    /\ qs_extracted.title = "Nurse"
    /\ Indicators(qs_extracted, qs_ai) = <<TRUE, TRUE, TRUE, TRUE, TRUE, TRUE, TRUE, TRUE>>
    /\ qs_score = 10

\* The first listing page of the site that answers a non-success status or has
\* no listings.
FirstStopPage(site) ==
    CHOOSE p \in 1..(MaxPage + 1) :
        /\ ~AnswerOf(site, p).ok \/ AnswerOf(site, p).listings = 0
        /\ \A q \in 1..(p - 1) : AnswerOf(site, q).ok /\ AnswerOf(site, q).listings > 0

\* The stubs of listing pages 1..n of the site.
RECURSIVE StubsUpTo(_, _)
StubsUpTo(site, n) ==
    IF n = 0 THEN <<>>
    ELSE StubsUpTo(site, n - 1) \o parse_listings(n, AnswerOf(site, n))

\* The finished run requested exactly pages 1..stop and stored exactly the
\* listings of the pages before stop, where stop is the first page with a
\* non-success status or zero listings.
StoppedAtFirstBadPage ==
    LET stop == FirstStopPage(pg_site)
    IN  /\ Range(pg_requested) = 1..stop
        /\ pg_stored = StubsUpTo(pg_site, stop - 1)

\* The backup scraper's run loop does stop at the first bad page.
BackupRunStopsAtFirstBadPage ==
    (pg_pc = "done" /\ pg_variant = "backup") => StoppedAtFirstBadPage

\* C14: a finished run of the generic adapter has requested listing pages 1, 2,
\* 3, ... up to the first page with a non-success status or zero listings and no
\* later page, and has stored exactly the listings of the earlier pages.
C14_PaginationStop ==
    pg_pc = "done" => StoppedAtFirstBadPage

\* C19: within one source no two listing pages are in flight at the same time,
\* and a page after the first is requested only when the page before it was
\* answered with success and at least one listing.
C19_ListingPagesSequential ==
    pg_variant \in {"backup", "scraper", "brightermonday"}
        => /\ Cardinality(pg_inflight) <= 1
           /\ \A i \in 1..Len(pg_requested) :
                  pg_requested[i] > 1
                      => /\ AnswerOf(pg_site, pg_requested[i] - 1).ok
                         /\ AnswerOf(pg_site, pg_requested[i] - 1).listings > 0

\* The backup scraper's run loop is sequential in that sense.
BackupRunIsSequential ==
    pg_variant = "backup"
        => /\ Cardinality(pg_inflight) <= 1
           /\ \A i \in 1..Len(pg_requested) :
                  pg_requested[i] > 1
                      => /\ pg_requested[i] - 1 \notin pg_inflight
                         /\ AnswerOf(pg_site, pg_requested[i] - 1).ok
                         /\ AnswerOf(pg_site, pg_requested[i] - 1).listings > 0

\* The record of RaceJob in the committed database is one writer's complete
\* record: every data table holds payload p.
HoldsCompleteRecordOf(p) ==
    \A t \in 1..Len(DataTables) : rc_db.tables[RaceJob][t] = p

\* process_job_batch: the jobs in detail fetch, extraction or enhancement are jobs
\* of the current batch, at most batch_size of them.
ProcessJobBatchBounded ==
    Cardinality({ j \in PJobs : pj_step[j] \in {"Fetching", "Extracting", "Enhancing"} })
        <= PBatchSize

\* C18: at every moment of batch_extract_async the number of jobs inside
\* extraction and store is at most max_concurrent, whatever the backlog size.
C18_BoundedWorkerPool ==
    /\ Cardinality(RunningTasks) <= wp_max_concurrent
    /\ wp_pc = "gather" => Cardinality(RunningTasks) + wp_permits = wp_max_concurrent

\* C18 witness: the backlog is larger than max_concurrent, the pool is full and a
\* job is waiting for a permit while another has finished.
C18_Witness ==
    /\ wp_pc = "gather"
    /\ NumTasks > wp_max_concurrent
    /\ Cardinality(RunningTasks) = wp_max_concurrent
    /\ \E t \in Tasks : wp_task[t] = "waiting"
    /\ \E t \in Tasks : wp_task[t] \in {"returned", "raised"}

\* The data rows of the job are never rows of two writers side by side: the main
\* row and every nested table hold the rows of one writer, the one that
\* committed last.
DataRowsOfLastWriter ==
    /\ \E p \in Writers \cup {0} : HoldsCompleteRecordOf(p)
    /\ rc_order # <<>> => HoldsCompleteRecordOf(rc_order[Len(rc_order)])

\* Every writer has returned from _store_job_data, having committed or raised.
RaceFinished == \A w \in Writers : rc_pc[w] \in {Committed, Failed}

\* C13: when writers store a record for the same job id concurrently, in every
\* interleaving the final storage holds for that job the complete record of one
\* writer, the one that committed last: its rows in the main table and every
\* nested table and its 'completed' status row, never parts of two writers.
C13_LastWriterWins ==
    RaceFinished =>
        /\ rc_order # <<>>
        /\ HoldsCompleteRecordOf(rc_order[Len(rc_order)])
        /\ rc_db.status[RaceJob] = CompletedRow

LinksOf(table) == { r.full_link : r \in table }

\* Links of the rows of the last call whose INSERT ran.
AttemptedLinks == bi_last.attempted

\* A call of batch_insert with a stored full_link left the one stored row of
\* that link in place, and a call made only of stored links returned 0.
StoredLinkAddsNothing ==
    bi_last.pc = "returned" =>
        /\ \A l \in AttemptedLinks \cap LinksOf(bi_last.before) :
              { r \in jobs_data : r.full_link = l } =
              { r \in bi_last.before : r.full_link = l }
        /\ \A l \in LinksOf(jobs_data) :
              Cardinality({ r \in jobs_data : r.full_link = l }) = 1
        /\ (AttemptedLinks \subseteq LinksOf(bi_last.before) => bi_last.inserted = 0)

\* A call of batch_insert that began its own transaction and committed it
\* returned the number of rows it added, one for every link not stored before.
CommittedCountIsExact ==
    bi_last.pc = "returned" /\ bi_last.committed /\ ~bi_last.carried =>
        /\ bi_last.inserted = Cardinality(jobs_data) - Cardinality(bi_last.before)
        /\ bi_last.inserted = Cardinality(AttemptedLinks \ LinksOf(bi_last.before))

\* C1: for any stub list, a batch_insert call that returns has returned exactly
\* the number of rows it added to storage; a call with a full_link that is
\* already stored counts nothing for that link (a call made only of stored
\* links returns 0) and storage holds exactly one row for it.
C1_IdempotentIngestion ==
    bi_last.pc = "returned" =>
        /\ bi_last.inserted = Cardinality(jobs_data) - Cardinality(bi_last.before)
        /\ (AttemptedLinks \subseteq LinksOf(bi_last.before) => bi_last.inserted = 0)
        /\ \A l \in AttemptedLinks \cap LinksOf(bi_last.before) :
              Cardinality({ r \in jobs_data : r.full_link = l }) = 1

\* C2: storage never holds two listing stubs with the same canonical URL, on the
\* SQLite path and on the API scrape path alike.
C2_UniqueCanonicalURL ==
    /\ \A r1, r2 \in jobs_data : r1.full_link = r2.full_link => r1 = r2
    /\ \A i, j \in DOMAIN raw_jobs : raw_jobs[i].link = raw_jobs[j].link => i = j

\* The site answers 503 to the first n requests and 200 to the next one.
Answers503Then200(n) ==
    /\ \A i \in 1..n : fp_script[i] = "503"
    /\ fp_script[n + 1] = "200"

\* C4: when the site answers N consecutive 503 and then a 200 (N <= max retries),
\* the finished call has issued exactly N+1 requests, waited strictly longer before
\* each successive retry, and returned the body of the 200.
C4_RetryBackoffMonotone ==
    fp_pc = "done" =>
        \A n \in 0..FetchRetries :
            Answers503Then200(n) =>
                /\ Len(fp_log) = n + 1
                /\ Len(fp_delays) = n
                /\ \A k \in 1..(n - 1) : fp_delays[k] < fp_delays[k + 1]
                /\ fp_result = "body"

\* C5: a 4xx answer other than 429 ends the call at once: one request, a failure.
C5_ClientErrorNoRetry ==
    (fp_pc # "idle" /\ Len(fp_log) >= 1 /\ fp_log[1] = "404") =>
        /\ fp_pc = "done"
        /\ Len(fp_log) = 1
        /\ fp_result = "none"

\* dict.get("processing_failed"): absent on a processed record.
IsFailedRecord(r) == "processing_failed" \in DOMAIN r /\ r.processing_failed

IsProcessedRecord(r) == "processed" \in DOMAIN r /\ r.processed

FetchFailed(j) == pj_env[j].fetch = "failed"

\* Job j met no failure of its own: its page came, no step raised, its store went through.
Undisturbed(j) ==
    /\ pj_env[j].fetch = "ok"
    /\ pj_env[j].raised = "none"
    /\ ~pj_env[j].store_failed

\* C3: when process_scraped_jobs has finished, every job has exactly one record in
\* the batch results whatever happened to the other jobs; a job whose detail
\* fetch failed has a Failed record with a non-empty error_message and storage
\* holds nothing of it but that record; a job that met no failure of its own is
\* Stored with its processed record.
C3_PartialFailureIsolation ==
    pj_phase = "done" =>
        \A j \in PJobs :
            /\ Cardinality({ k \in DOMAIN pj_out : pj_out[k].id = j }) = 1
            /\ FetchFailed(j) =>
                  /\ pj_step[j] = "Failed"
                  /\ \A k \in DOMAIN pj_out :
                        pj_out[k].id = j =>
                            /\ IsFailedRecord(pj_out[k])
                            /\ pj_out[k].error_message # ""
                  /\ db_processed[j] \in {NoRecord, pj_result[j]}
                  /\ ~IsProcessedRecord(db_processed[j])
            /\ Undisturbed(j) =>
                  /\ pj_step[j] = "Stored"
                  /\ IsProcessedRecord(db_processed[j])
                  /\ db_processed[j] = pj_result[j]

\* Two jobs of the first batch: the fetch of one failed, the other is Stored.
C3_Witness ==
    /\ pj_phase = "done"
    /\ \E j1, j2 \in Batch(0) :
          /\ FetchFailed(j1)
          /\ IsFailedRecord(db_processed[j1])
          /\ pj_step[j2] = "Stored"

\* The trace of job j without a final "Failed".
ForwardPart(j) ==
    LET t == pj_trace[j]
    IN  IF t[Len(t)] = "Failed" THEN SubSeq(t, 1, Len(t) - 1) ELSE t

\* The position a job is in when the step named in pj_env raises.
RaisedAt(j) == IF pj_env[j].raised = "Extracting" THEN "Extracting" ELSE "Enhancing"

\* The part of C9 that process_job decides: positions are passed in pipeline order
\* without skipping; no content or an exception inside process_job ends the job in
\* Failed at once, with the message in the failed record.
ProcessJobShortCircuits ==
    \A j \in PJobs :
        /\ ForwardPart(j) = SubSeq(StepOrder, 1, Len(ForwardPart(j)))
        /\ pj_step[j] = pj_trace[j][Len(pj_trace[j])]
        /\ FetchFailed(j) =>
              /\ pj_trace[j] = <<"Stubbed", "Fetching", "Failed">>
              /\ IsFailedRecord(pj_result[j])
              /\ pj_result[j].error_message = "Failed to fetch content"
        /\ pj_env[j].raised # "none" =>
              /\ pj_step[j] = "Failed"
              /\ ForwardPart(j)[Len(ForwardPart(j))] = RaisedAt(j)
              /\ IsFailedRecord(pj_result[j])
              /\ pj_result[j].error_message = pj_env[j].msg
        /\ pj_step[j] = "Failed" => (FetchFailed(j) \/ pj_env[j].raised # "none")

\* C9: a job's positions only move forward in the order Stubbed, Fetching,
\* Extracting, Enhancing, Scored, Stored; when any step raises (or the fetch yields
\* no content) the job is Failed with the message captured in its record and no
\* later step runs. The store is the last step.
C9_ForwardOnlyStateMachine ==
    /\ ProcessJobShortCircuits
    /\ \A j \in PJobs :
          pj_env[j].store_failed =>
              /\ pj_step[j] = "Failed"
              /\ IsFailedRecord(pj_result[j])

\* Fields of a record that come from extraction or from the AI enrichment.
EnrichmentKeys ==
    {"company", "description", "requirements", "skills", "salary",
     "ai_skills_analysis", "ai_role_level", "remote_friendly", "growth_potential",
     "key_responsibilities"}

\* Every record the pipeline holds: returned by a task, collected, or stored.
PipelineRecords ==
    ({ pj_result[j] : j \in PJobs } \cup { db_processed[j] : j \in PJobs }
        \cup Range(pj_out)) \ {NoRecord}

\* C10: a record with processing_failed = true has quality_score 0, an
\* error_message, processed = false and no extracted or AI field; no record is
\* both processed and processing_failed.
C10_FailedRecordShape ==
    \A r \in PipelineRecords :
        /\ IsFailedRecord(r) =>
              /\ r.quality_score = 0
              /\ "error_message" \in DOMAIN r
              /\ r.processed = FALSE
              /\ DOMAIN r \cap EnrichmentKeys = {}
        /\ ~(IsProcessedRecord(r) /\ IsFailedRecord(r))

\* A failed record and a processed record are both in storage.
C10_Witness ==
    \E j1, j2 \in PJobs :
        /\ IsFailedRecord(db_processed[j1])
        /\ IsProcessedRecord(db_processed[j2])
        /\ db_processed[j2].quality_score > 0

\* C6: a _store_job_data call that fails at any statement leaves no part of its
\* record visible: at every moment the data tables of a job hold either no row
\* of it or one complete version, a job marked completed has its rows, and after
\* a failed call the job's rows are what they were before the call.
C6_StoreAtomicity ==
    /\ \A j \in SJobs :
          /\ \A t \in 1..Len(DataTables) : st_db.tables[j][t] = st_db.tables[j][1]
          /\ st_db.status[j].status = "completed" => st_db.tables[j][1] # 0
    /\ (st_last.called /\ st_last.failed) =>
          st_db.tables[st_last.job] = st_last.pre

\* A store over a previous complete version failed after it had written to some
\* data tables; the previous version is intact and the job is marked error.
C6_Witness ==
    /\ st_last.called
    /\ st_last.failed
    /\ st_last.partial
    /\ st_last.pre[1] # 0
    /\ st_db.tables[st_last.job] = st_last.pre
    /\ st_db.status[st_last.job].status = "error"

\* C7: get_unprocessed_jobs returns exactly the stubs that have no status record
\* or have status error with a retry count below max_retries, in ascending id
\* order.
C7_UnprocessedSelection ==
    get_unprocessed_jobs(st_same_db, st_db.status) =
        SortById({ j \in SJobs :
            \/ st_db.status[j].status = "absent"
            \/ (st_db.status[j].status = "error"
                    /\ st_db.status[j].retry_count < max_retries) })

\* C8: a job whose storage has failed up to the ceiling is in no later batch
\* and stays flagged as failed, whatever batch_extract and cleanup_failed_jobs
\* calls follow. The ceiling is read at its latest, the threshold of
\* cleanup_failed_jobs: an error row with a retry count above max_retries.
C8_MaxRetryCeiling ==
    \A j \in st_exhausted :
        /\ Exhausted(st_db.status, j)
        /\ \A k \in DOMAIN bx_queue : bx_queue[k].id # j

\* C11: when the AI collaborator times out, raises or answers with text that is
\* no JSON (or there is no client), process_job still returns a record with
\* processed = true: its extracted fields are those of the extraction and its AI
\* fields are the defaults.
C11_AiFailureKeepsJob ==
    \A j \in PJobs :
        pj_env[j].ai = "failed" =>
            /\ pj_step[j] \in {"Scored", "Stored"}
            /\ IsProcessedRecord(pj_result[j])
            /\ ~IsFailedRecord(pj_result[j])
            /\ pj_result[j].title = pj_extracted[j].title
            /\ pj_result[j].company = pj_extracted[j].company
            /\ pj_result[j].description = pj_extracted[j].description
            /\ pj_result[j].skills = pj_extracted[j].skills
            /\ pj_result[j].requirements = pj_extracted[j].requirements
            /\ pj_result[j].salary = pj_extracted[j].salary
            /\ pj_result[j].ai_skills_analysis = <<>>
            /\ pj_result[j].ai_role_level = ""
            /\ pj_result[j].remote_friendly = FALSE
            /\ pj_result[j].growth_potential = "Medium"
            /\ pj_result[j].key_responsibilities = <<>>

\* The AI call of a job with a full extraction failed and the job is stored as
\* processed.
C11_Witness ==
    \E j \in PJobs :
        /\ pj_env[j].ai = "failed"
        /\ pj_extracted[j].description # ""
        /\ IsProcessedRecord(db_processed[j])
        /\ db_processed[j].ai_skills_analysis = <<>>

\* The rows of education_requirements that belong to job j, in id order.
EducationRowsOf(j) == SelectSeq(ed_rows, LAMBDA r : r.job_id = j)

\* C12: however often the record of a job is stored, its nested rows in storage
\* are exactly those of the latest write, never an accumulation of earlier
\* writes.
C12_ReprocessingOverwrites ==
    \A j \in EJobs : EducationRowsOf(j) = RowsOf(j, ed_written[j])

\* The score min(max(x, 0), 1) of the claim, in tenths.
NearestInRange(x) == IF x < 0 THEN 0 ELSE IF x > 10 THEN 10 ELSE x

\* The requirements of the last call came out one for one, each score clamped.
ClampedOneForOne ==
    /\ ~ed_last.result.raised
    /\ Len(ed_last.result.requirements) = Len(ed_last.outcome.requirements)
    /\ \A i \in DOMAIN ed_last.outcome.requirements :
          /\ ed_last.result.requirements[i].level = ed_last.outcome.requirements[i].level
          /\ ed_last.result.requirements[i].confidence_score =
                NearestInRange(ed_last.outcome.requirements[i].confidence_score)

\* The clamping of the two _post_process_results functions (educ_process.py and
\* educ_try.py).
PostProcessClamps ==
    (ed_last.variant \in {"educ_process", "educ_try"} /\ ed_last.outcome.kind = "answer")
        => ClampedOneForOne

\* C16: every requirement the AI collaborator answers with leaves the extractor
\* with its confidence score clamped into [0,1] (below 0 becomes 0, above 1
\* becomes 1, inside unchanged); the requirement is kept, not rejected.
C16_ConfidenceClamped ==
    ed_last.outcome.kind = "answer" => ClampedOneForOne

\* C17: when the AI collaborator answers with malformed output, times out or
\* fails otherwise, extract (educ_process.extract_academic_details) does not
\* raise: it returns an empty requirements list with the analyzed text of the
\* job.
C17_ExtractorNeverRaises ==
    (ed_last.variant = "educ_process" /\ ed_last.outcome.kind \in {"malformed", "timeout"})
        => /\ ~ed_last.result.raised
           /\ ed_last.result.requirements = <<>>
           /\ ed_last.result.raw_text_analyzed.id = ed_last.job

\* Every request of the call timed out, failed on the network or got a 503.
AllAttemptsFailed ==
    /\ fp_log # <<>>
    /\ \A i \in 1..Len(fp_log) : fp_log[i] \in {"503", "timeout", "error"}

\* The typed error that names the cause of a failed request.
TypedError(resp) ==
    CASE resp = "timeout" -> "Timeout"
      [] resp = "error" -> "Network"
      [] OTHER -> "HTTPStatus"

\* fetch_page stops after `retries` requests that all failed and returns None.
FetchPageStopsWhenExhausted ==
    (fp_pc = "done" /\ AllAttemptsFailed)
        => Len(fp_log) = FetchRetries /\ fp_result = "none"

\* C21: when every attempt for a URL times out or answers 5xx, the finished call
\* has made no more than the configured number of attempts and its result is a
\* failure that names the cause (Timeout, HTTPStatus or Network), not a body.
C21_RetryExhaustion ==
    (fp_pc = "done" /\ AllAttemptsFailed)
        => /\ Len(fp_log) <= FetchRetries
           /\ fp_result = TypedError(fp_log[Len(fp_log)])

\* The limiter's own window: the calls let through since last_reset are at most
\* REQUESTS_PER_MINUTE.
FixedWindowBudget ==
    IssuedIn(rl_calls, rl_limiter.last_reset, MaxClock) <= RequestsPerMinute

\* C22: across the threads that share rate_limited_get, the requests sent in
\* any period of one minute are at most REQUESTS_PER_MINUTE.
C22_RequestsPerMinuteBudget ==
    \A t \in 0..(MaxClock - TicksPerMinute + 1) :
        IssuedIn(rl_issued, t, t + TicksPerMinute - 1) <= RequestsPerMinute

\* C23: every stub the adapters return and the API stores has a non-empty title
\* (its link is absolute by get_job_detail_url); cards without title or link
\* are skipped.
C23_CardTolerance ==
    \A i \in DOMAIN raw_jobs : raw_jobs[i].title # ""

\* The BrighterMonday adapter returns no stub with an empty title.
BrighterMondayStubsHaveTitle ==
    \A i \in DOMAIN raw_jobs :
        raw_jobs[i].source = ScraperName("brightermonday") => raw_jobs[i].title # ""

\* The numeric groups of a snippet, read off its positions: a group starts at a
\* digit token that no digit or comma run links to an earlier digit token.
GroupStarts(text) ==
    { i \in 1..Len(text) :
        /\ text[i] \in DigitTokens
        /\ ~\E j \in 1..(i - 1) :
              /\ text[j] \in DigitTokens
              /\ \A k \in j..i : text[k] \in DigitTokens \cup {","} }

\* C26: a snippet with two numeric groups gives a range with min and max, one
\* with a single group gives an amount; the currency is USD when the snippet
\* contains '$', KES when it contains 'kes' in any case, else the local default
\* KSH; the period is year when it contains year or annual, else month; and the
\* two sample snippets give {80000, 120000, KES, month} and {95000, USD, year}.
C26_SalaryParsing ==
    LET n == Cardinality(GroupStarts(ps_text))
        keys == DOMAIN ps_result
    IN  /\ n = 2 => {"min", "max"} \subseteq keys /\ "amount" \notin keys
        /\ n = 1 => "amount" \in keys /\ "min" \notin keys
        /\ n >= 1 =>
              /\ ps_result.currency =
                    (IF \E i \in 1..Len(ps_text) : ps_text[i] = "$" THEN "USD"
                     ELSE IF \E i \in 1..Len(ps_text) : ps_text[i] \in {"kes", "KES"}
                     THEN "KES" ELSE "KSH")
              /\ ps_result.period =
                    (IF \E i \in 1..Len(ps_text) : ps_text[i] \in {"year", "annual"}
                     THEN "year" ELSE "month")
        /\ ps_text = SnippetKesRange =>
              /\ ps_result.min = 80000 /\ ps_result.max = 120000
              /\ ps_result.currency = "KES" /\ ps_result.period = "month"
        /\ ps_text = SnippetUsdAmount =>
              /\ ps_result.amount = 95000
              /\ ps_result.currency = "USD" /\ ps_result.period = "year"

\* C26 witness: "KES 80,000 - 120,000 per month" was parsed into a range.
C26_Witness ==
    /\ ps_text = SnippetKesRange
    /\ ps_result.min = 80000
    /\ ps_result.max = 120000

\* ---------------------------------------------------------------------------
\* Cancellation of the task that runs process_scraped_jobs / process_job_batch
\* ---------------------------------------------------------------------------

\* The steps at which a process_job coroutine has not returned yet.
InFlightSteps == {"Fetching", "Extracting", "Enhancing"}

\* A gather that cancels only one of its unfinished children.
gather_cancel_FirstOnly(step, batch) ==
    [j \in PJobs |->
        IF /\ j \in batch
           /\ step[j] \in InFlightSteps
           /\ \A k \in batch : step[k] \in InFlightSteps => j <= k
        THEN "Cancelled" ELSE step[j]]

\* asyncio.gather is cancelled: every child that is not done is cancelled; the
\* CancelledError is a BaseException, which process_job's `except Exception`
\* does not catch, so the child ends without a result.
gather_cancel(step, batch) ==
    [j \in PJobs |->
        IF j \in batch /\ step[j] \in InFlightSteps THEN "Cancelled" ELSE step[j]]

\* The task is cancelled (task.cancel(), or the timeout of an enclosing
\* asyncio.wait_for) while it awaits the gather, the sleep between two batches
\* or a replace_one: the CancelledError leaves process_job_batch through the
\* `async with`, and passes the `except Exception` of process_scraped_jobs.
PjCancel ==
    /\ pj_phase \in {"batch", "sleep", "store"}
    /\ pj_phase' = "cancelled"
    /\ pj_step' = gather_cancel(pj_step, Batch(pj_i))
    /\ pj_trace' = [j \in PJobs |->
                      IF pj_step'[j] # pj_step[j]
                      THEN Append(pj_trace[j], "Cancelled") ELSE pj_trace[j]]
    /\ UNCHANGED <<pj_i, pj_extracted, pj_result, pj_out, pj_k, db_processed, pj_env>>
    /\ UNCHANGED <<ingestVars, apiVars, fetchVars, storeVars, educVars, raceVars, pageVars, scoreVars, poolVars, sessVars, limiterVars, salaryVars>>

NextCancel == NextPipe \/ PjCancel

SpecCancel == Init /\ [][NextCancel]_vars

\* C24: once the batch is cancelled no job is left in flight (the cancellation
\* reached every in-flight fetch), storage holds no record of a cancelled job
\* and only complete records of the others, and the batch takes no further step.
C24_Cancellation ==
    [][ /\ pj_phase' = "cancelled" =>
            /\ \A j \in PJobs : pj_step'[j] \notin InFlightSteps
            /\ \A j \in PJobs :
                  /\ pj_step'[j] = "Cancelled" => db_processed'[j] = NoRecord
                  /\ db_processed'[j] \in {NoRecord, pj_result'[j]}
        /\ pj_phase = "cancelled" => UNCHANGED pipeVars ]_vars

\* C24 witness: a batch was cancelled with two jobs in flight.
C24_Witness ==
    /\ pj_phase = "cancelled"
    /\ \E j1, j2 \in PJobs :
          /\ j1 # j2
          /\ pj_step[j1] = "Cancelled"
          /\ pj_step[j2] = "Cancelled"
          /\ db_processed[j1] = NoRecord
          /\ db_processed[j2] = NoRecord

\* C24 witness of a cancellation during the store loop: one record is stored
\* whole, the next one is not stored.
C24_CancelledWhileStoring ==
    /\ pj_phase = "cancelled"
    /\ \E j1, j2 \in PJobs :
          /\ db_processed[j1] # NoRecord
          /\ pj_step[j2] = "Scored"
          /\ db_processed[j2] = NoRecord

\* A step in which _store_job_data was called for es_job and raised (a step
\* that leaves both the database and the record of the last call as they were
\* is not told apart from a failure of the chains and is not counted).
FailedStoreStep ==
    /\ es_job # 0
    /\ st_last'.called
    /\ st_last'.failed
    /\ st_last'.job = es_job
    /\ st_last'.pre = st_db.tables[es_job]
    /\ (st_last' # st_last \/ st_db' # st_db)

\* The status row the error handler of _store_job_data is meant to leave.
ErrorRowAfter(row) ==
    [status |-> "error", error_message |-> StoreErrorMessage,
     retry_count |-> row.retry_count + 1]

\* C25: whenever a store of one record fails, on return the job's status row
\* has status error with the error message recorded and a retry count one
\* greater than before the attempt (1 when there was no status row).
C25_StoreFailureStatus ==
    [][ FailedStoreStep =>
            st_db'.status[es_job] = ErrorRowAfter(st_db.status[es_job]) ]_vars

\* The same for the failed stores whose error-status upsert and commit went
\* through (the `except: pass` around them was not taken), which changes the
\* database.
ErrorStatusWhenWritten ==
    [][ (FailedStoreStep /\ st_db' # st_db) =>
            st_db'.status[es_job] = ErrorRowAfter(st_db.status[es_job]) ]_vars

\* A failed store of a job without a status row left retry_count 1, and a later
\* failed store of the same job left 2.
ErrorStatusCounts ==
    /\ st_last.called
    /\ st_last.failed
    /\ es_job = st_last.job
    /\ es_retry = 2
    /\ st_db.status[st_last.job] = ErrorRowAfter(ErrorRowAfter(NoStatusRow))

\* ---------------------------------------------------------------------------
\* spiders/brightermonday.py: insert_data, one stub per call
\* ---------------------------------------------------------------------------

\* The link of an extracted_data without full_link (Python None).
NoLink == 0

\* extracted_data as the spider builds it: the title possibly empty, the link
\* possibly missing.
ExtractedData ==
    { [title |-> p.title, full_link |-> l, content |-> p.content] :
        p \in StubPayloads \cup {[title |-> "", content |-> "body"]},
        l \in Links \cup {NoLink} }

\* insert_data(extracted_data): skipped without a title or a link; else one
\* INSERT OR IGNORE and a commit; a sqlite3.Error is logged and nothing is stored.
insert_data(conn, extracted_data, raises) ==
    IF extracted_data.title = "" \/ extracted_data.full_link = NoLink \/ raises
    THEN [table |-> conn.table, seq |-> conn.seq]
    ELSE LET r == InsertOrIgnore(conn, extracted_data)
         IN  [table |-> r.table, seq |-> r.seq]

\* The spider calls insert_data for a scraped job, on a connection of its own:
\* while a Database connection holds the write lock of an open transaction the
\* INSERT raises (database is locked).
InsertDataCall ==
    \E extracted_data \in ExtractedData, raises \in BOOLEAN :
        LET res == insert_data([table |-> jobs_data, seq |-> sqlite_seq],
                               extracted_data, raises)
        IN  /\ bi_txn.open => raises
            /\ res.seq <= MaxSeq
            /\ jobs_data' = res.table
            /\ sqlite_seq' = res.seq
            /\ bi_last' = IF bi_last.pc = "loop" THEN bi_last ELSE NoBatchInsert
            /\ UNCHANGED bi_txn
            /\ UNCHANGED <<apiVars, fetchVars, pipeVars, storeVars, educVars, raceVars, pageVars, scoreVars, poolVars, sessVars, limiterVars, salaryVars>>

\* The operations of the scrape phase on jobs_data.
NextStubs ==
    BatchInsertCall \/ BatchInsertRow \/ BatchInsertCommit \/ DatabaseClose \/ InsertDataCall

SpecStubs == Init /\ [][NextStubs]_vars

\* C27: a stored listing stub is immutable: after any operation of the scrape
\* phase, an insert with a stored full_link included, the row of every stored
\* link is the same row, with the same id, title and content, and it is the only
\* row of that link.
C27_StubImmutable ==
    [][ \A r \in jobs_data :
            { x \in jobs_data' : x.full_link = r.full_link } = {r} ]_vars

\* C27 witness: batch_insert was called with a stored link and another title;
\* the stored row kept its id, title and content.
C27_Witness ==
    /\ bi_last.pc = "returned"
    /\ \E l \in bi_last.retitled, r \in bi_last.before :
          /\ r.full_link = l
          /\ r \in jobs_data
          /\ Cardinality(jobs_data) = Cardinality(bi_last.before)

\* The steps at which process_job has returned (and its record may be stored).
FinishedSteps == {"Scored", "Failed", "Stored"}

\* The offset of the batch job j belongs to.
BatchOf(j) == CHOOSE i \in BatchStarts : j \in Batch(i)

\* The batches partition the backlog, in order, each of at most batch_size jobs.
BatchesPartition ==
    /\ \A j \in PJobs : Cardinality({ i \in BatchStarts : j \in Batch(i) }) = 1
    /\ \A i \in BatchStarts :
          /\ Batch(i) # {}
          /\ Cardinality(Batch(i)) <= PBatchSize
          /\ \A j \in Batch(i), k \in PJobs : (i < k /\ k <= j) => k \in Batch(i)
    /\ \A i1, i2 \in BatchStarts :
          i1 < i2 => \A j1 \in Batch(i1), j2 \in Batch(i2) : j1 < j2

\* A job has started only when every job of the earlier batches has finished;
\* during the delay no job of a later batch has started and one batch is left.
BatchesInSequence ==
    /\ \A j, k \in PJobs :
          (pj_step[j] # "Stubbed" /\ BatchOf(k) < BatchOf(j))
              => pj_step[k] \in FinishedSteps
    /\ pj_phase = "sleep" =>
          /\ Batch(pj_i) # {}
          /\ \A j \in PJobs : j > pj_i => pj_step[j] = "Stubbed"
          /\ \A j \in PJobs : j <= pj_i => pj_step[j] \in FinishedSteps

\* Between the end of a batch and the start of the next one lies the delay, and
\* after the last batch the results are stored without one.
DelayBetweenBatchesOnly ==
    /\ pj_i' # pj_i =>
          /\ pj_phase = "batch"
          /\ pj_phase' = IF pj_i' < NumPJobs THEN "sleep" ELSE "store"
    /\ pj_phase = "sleep" => (pj_phase' \in {"sleep", "batch"} /\ pj_step' = pj_step)
    /\ pj_phase' = "sleep" => pj_phase \in {"sleep", "batch"}
    /\ (pj_phase' = "store" /\ pj_phase # "store") => pj_phase = "batch"

\* C28: the backlog is split into consecutive batches of at most batch_size
\* jobs with every job in exactly one batch; no job of a batch starts before
\* every job of the batch before has finished and the delay has elapsed; the
\* delay comes between two batches only, not after the last one.
C28_BatchSequencing ==
    /\ [](BatchesPartition /\ BatchesInSequence)
    /\ [][DelayBetweenBatchesOnly]_vars

\* C28 witness: the delay after the first batch: its jobs have all finished
\* and the jobs of the second batch have not started.
C28_Witness ==
    /\ pj_phase = "sleep"
    /\ Cardinality(BatchStarts) > 1
    /\ \A j \in Batch(0) : pj_step[j] \in FinishedSteps
    /\ \A j \in Batch(pj_i) : pj_step[j] = "Stubbed"
    /\ Batch(pj_i) # {}
    /\ Cardinality(Batch(0)) = PBatchSize

\* The ids of the rows of a work list.
IdsOf(rows) == { rows[k].id : k \in DOMAIN rows }

\* A step in which _store_job_data stored es_job and extract_and_store returned
\* the stored data.
StoredStep ==
    /\ es_job # 0
    /\ es_job' = 0
    /\ es_result'.returned
    /\ es_result'.job_data.payload # 0

\* C29: a successful _store_job_data leaves the job's status row at completed
\* with retry_count 0; a completed job is never returned by
\* get_unprocessed_jobs; hence over repeated batch runs no completed job is in
\* a work list or in an attempt, and no successful store was made on a job
\* that was completed already.
C29_StoredAtMostOnce ==
    /\ [](/\ (st_last.called /\ ~st_last.failed) =>
               /\ st_db.status[st_last.job].status = "completed"
               /\ st_db.status[st_last.job].retry_count = 0
          /\ \A j \in SJobs :
                st_db.status[j].status = "completed" =>
                    /\ j \notin IdsOf(get_unprocessed_jobs(st_same_db, st_db.status))
                    /\ j \notin IdsOf(bx_queue)
                    /\ es_job # j)
    /\ [][StoredStep => st_db.status[es_job].status # "completed"]_vars

\* C29 witness: a job whose recorded retry count had exceeded max_retries was
\* stored in a later run; its status row is completed with retry_count 0, and
\* the work list of the batch run holds another stub and not this job.
C29_Witness ==
    /\ st_last.called
    /\ ~st_last.failed
    /\ st_last.job \in st_exhausted
    /\ st_db.status[st_last.job] = CompletedRow
    /\ bx_pc = "running"
    /\ bx_queue # <<>>
    /\ st_last.job \notin IdsOf(bx_queue)
    /\ es_job = 0

\* The sleeps a call has made after its first n failed attempts.
BackoffSleeps(n) == [k \in 1..n |-> Pow2(k)]

\* What holds of extract_and_store at every moment of a call and after it.
ExtractAndStoreBounded ==
    /\ es_retry < max_retries
    /\ es_job # 0 =>
          /\ ~es_result.returned
          /\ es_delays = BackoffSleeps(es_retry)
    /\ es_result.returned =>
          /\ es_job = 0
          /\ Len(es_delays) < max_retries
          /\ es_delays = BackoffSleeps(Len(es_delays))
          /\ es_result.job_data.payload = es_result.education_data.requirements
          /\ es_result.job_data.payload = 0 =>
                \/ es_result.job_data.full_link = 0 /\ es_delays = <<>>
                \/ es_result.job_data.full_link # 0 /\ Len(es_delays) = max_retries - 1
          /\ es_result.job_data.payload # 0 =>
                /\ es_result.job_data.full_link = st_last.job
                /\ st_last.called
                /\ ~st_last.failed
                /\ \A t \in 1..Len(DataTables) :
                      st_db.tables[st_last.job][t] = es_result.job_data.payload

\* A step inside a call is a failed attempt, which uses up one of the
\* max_retries passes; a call that has returned makes no attempt.
AttemptsCountDown ==
    /\ (es_job # 0 /\ es_job' = es_job /\ es_retry' # es_retry) => es_retry' = es_retry + 1
    /\ (es_job # 0 /\ es_job' # es_job) => (es_job' = 0 /\ es_result'.returned)
    /\ (es_job = 0 /\ es_result.returned /\ es_result' = es_result) =>
          (st_last' = st_last /\ es_delays' = es_delays)

\* C30: one call of extract_and_store makes at most max_retries attempts,
\* sleeps 2^k seconds after its k-th failed attempt and not after the last one,
\* and returns: after max_retries failures an empty JobExtraction carrying
\* full_link and an EducationExtraction without requirements, after the first
\* successful attempt that attempt's data, with no further attempt.
C30_BoundedRetryReturns ==
    /\ []ExtractAndStoreBounded
    /\ [][AttemptsCountDown]_vars

\* C30 witness: a call whose three attempts failed, one of them in the store,
\* has slept 2 s and 4 s and returned the empty pair with the job's link.
C30_Witness ==
    /\ es_result.returned
    /\ es_result.job_data.payload = 0
    /\ es_result.job_data.full_link # 0
    /\ es_delays = <<2, 4>>
    /\ st_last.called
    /\ st_last.failed
    /\ st_last.job = es_result.job_data.full_link

\* A call that failed once and then stored returned the stored data after one
\* sleep of 2 s.
ReturnedOnFirstSuccess ==
    /\ es_result.returned
    /\ es_result.job_data.payload # 0
    /\ es_delays = <<2>>

====
